---------------------------- MODULE Spec2Model ----------------------------
(***************************************************************************)
(* A model of the csvanalyzer pipeline (obennett-m/csvanalyzer, Rust).     *)
(*                                                                         *)
(* Text is modelled as it is in the program: a string is a sequence of     *)
(* characters, a character is its code point (a natural number), and a     *)
(* file is a sequence of bytes (0..255).  Option<T> is a sequence of       *)
(* length at most one: None is << >> and Some(x) is << x >>.               *)
(***************************************************************************)
EXTENDS Integers, Sequences, FiniteSets, TLC

(***************************************************************************)
(* Characters                                                              *)
(***************************************************************************)

\* The printable ASCII characters in code-point order, 0x20 .. 0x7E (0x60, the
\* grave accent, has no one-character name here).
Printable ==
  << " ", "!", "\"", "#", "$", "%", "&", "'", "(", ")", "*", "+", ",", "-", ".", "/",
     "0", "1", "2", "3", "4", "5", "6", "7", "8", "9", ":", ";", "<", "=", ">", "?",
     "@", "A", "B", "C", "D", "E", "F", "G", "H", "I", "J", "K", "L", "M", "N", "O",
     "P", "Q", "R", "S", "T", "U", "V", "W", "X", "Y", "Z", "[", "\\", "]", "^", "_",
     "(grave)", "a", "b", "c", "d", "e", "f", "g", "h", "i", "j", "k", "l", "m", "n", "o",
     "p", "q", "r", "s", "t", "u", "v", "w", "x", "y", "z", "{", "|", "}", "~" >>

\* The code point of a printable ASCII character written as a one-character string;
\* "TAB", "LF", "VT" and "CR" name the control characters 9, 10, 11 and 13.
Ch(c) ==
  CASE c = "TAB" -> 9
    [] c = "LF" -> 10
    [] c = "VT" -> 11
    [] c = "CR" -> 13
    [] OTHER -> 31 + (CHOOSE i \in 1..Len(Printable) : Printable[i] = c)

\* A string literal: Str(<<"a", ",", "b">>) is the text  a,b .
Str(cs) == [i \in 1..Len(cs) |-> Ch(cs[i])]

Some(x) == << x >>
None == << >>
unwrap_or(o, d) == IF o = None THEN d ELSE o[1]

IsAsciiLower(c) == c \in 97..122
IsAsciiUpper(c) == c \in 65..90
IsAsciiDigit(c) == c \in 48..57
IsAsciiAlpha(c) == IsAsciiLower(c) \/ IsAsciiUpper(c)

\* char::to_ascii_lowercase
to_ascii_lowercase(c) == IF IsAsciiUpper(c) THEN c + 32 ELSE c

\* char lower-casing of str::to_lowercase, for ASCII and Latin-1 letters.
char_to_lowercase(c) ==
  IF IsAsciiUpper(c) \/ (c \in 192..222 /\ c # 215) THEN c + 32 ELSE c

\* str::to_lowercase
to_lowercase(s) == [i \in 1..Len(s) |-> char_to_lowercase(s[i])]

\* char::is_whitespace (the Unicode White_Space property)
is_whitespace(c) ==
  c \in (9..13) \cup {32, 133, 160, 5760, 8232, 8233, 8239, 8287, 12288} \cup (8192..8202)

\* str::trim: the text without its leading and trailing white space.
trim(s) ==
  IF \A i \in 1..Len(s) : is_whitespace(s[i]) THEN << >>
  ELSE LET lo == CHOOSE i \in 1..Len(s) :
                   ~is_whitespace(s[i]) /\ \A j \in 1..(i - 1) : is_whitespace(s[j])
           hi == CHOOSE i \in 1..Len(s) :
                   ~is_whitespace(s[i]) /\ \A j \in (i + 1)..Len(s) : is_whitespace(s[j])
       IN SubSeq(s, lo, hi)

\* True when the character c occurs in the string s.
contains(s, c) == \E i \in 1..Len(s) : s[i] = c

\* The least and the greatest element of a non-empty set of integers.
Min(S) == CHOOSE x \in S : \A y \in S : x <= y
Max(S) == CHOOSE x \in S : \A y \in S : y <= x

\* A loop  for i in lo..=hi { acc = Op(acc, i) } : the steps are applied in the
\* order lo, lo+1, .., hi.  The range is halved so that the evaluation needs a
\* stack of logarithmic depth; the accumulator is bound as an element of a
\* singleton set so that it is a value before the next step starts from it.
RECURSIVE Fold(_, _, _, _)
Fold(Op(_, _), acc, lo, hi) ==
  IF lo > hi THEN acc
  ELSE IF lo = hi THEN CHOOSE r \in {Op(a, lo) : a \in {acc}} : TRUE
  ELSE CHOOSE r \in {Fold(Op, a, ((lo + hi) \div 2) + 1, hi) :
                       a \in {Fold(Op, acc, lo, (lo + hi) \div 2)}} : TRUE

(***************************************************************************)
(* types.rs: constants                                                     *)
(***************************************************************************)
MAX_SCAN_LINES == 1000
MAX_RETURN_LINES == 10
MAX_COLUMNS == 200
MAX_STRING_SIZE == 1000
MAX_BYTES == 51200
FIELD_DELIM_PERCENT == 50
TEXT_SEP_PERCENT == 50
COLUMN_COUNT_PERCENT == 90
MAX_BUCKET == 4
CSVA_GUESS_SIZE == 5120

\* Candidate field delimiters in priority order: VT , ; | space TAB
FIELD_DELIMS == << 11, 44, 59, 124, 32, 9 >>

\* Text separator candidates: the double and the single quote
TEXT_SEPS == << 34, 39 >>

\* "abcdefghijklmnopqrstuvwxyz0123456789._-+"
EMAIL_LOCAL_CHARS == (97..122) \cup (48..57) \cup {46, 95, 45, 43}

\* "abcdefghijklmnopqrstuvwxyz0123456789.-"
EMAIL_DOMAIN_CHARS == (97..122) \cup (48..57) \cup {46, 45}

(***************************************************************************)
(* detection/quote.rs                                                      *)
(***************************************************************************)

\* count_char: occurrences of the character c in s.
count_char(c, s) == Cardinality({i \in 1..Len(s) : s[i] = c})

\* The inner loop of detect_quote_char, over the candidates, for one line.  An odd
\* count resets that candidate's two counters and breaks out of the loop over the
\* candidates: the later candidates are not counted for this line, and nothing
\* records that the candidate was invalid.
quote_line_stats(stats, line) ==
  LET inner(acc, i) ==
        IF acc.broke THEN acc
        ELSE LET count == count_char(acc.stats[i].c, line)
             IN IF count % 2 # 0
                THEN [stats |-> [acc.stats EXCEPT ![i].total = 0, ![i].lines = 0],
                      broke |-> TRUE]
                ELSE [stats |-> [acc.stats EXCEPT
                                   ![i].total = @ + count,
                                   ![i].lines = @ + (IF count > 0 THEN 1 ELSE 0)],
                      broke |-> FALSE]
  IN Fold(inner, [stats |-> stats, broke |-> FALSE], 1, Len(stats)).stats

\* The outer loop of detect_quote_char, over the lines.
quote_stats(lines) ==
  LET outer(stats, n) == quote_line_stats(stats, lines[n])
  IN Fold(outer,
          [i \in 1..Len(TEXT_SEPS) |-> [c |-> TEXT_SEPS[i], total |-> 0, lines |-> 0]],
          1, Len(lines))

\* "Find separator with highest count": the first index whose total is positive and
\* strictly greater than that of the best index so far.
best_quote(stats) ==
  LET pick(best, i) ==
        IF stats[i].total > 0 /\ (best = None \/ stats[i].total > stats[best[1]].total)
        THEN Some(i) ELSE best
  IN Fold(pick, None, 1, Len(stats))

\* "Check if winner exists in at least TEXT_SEP_PERCENT of lines"
quote_winner(stats, nlines) ==
  LET best == best_quote(stats)
  IN IF best # None /\ (stats[best[1]].lines * 100) \div nlines >= TEXT_SEP_PERCENT
     THEN Some(stats[best[1]].c)
     ELSE None

detect_quote_char(lines) ==
  IF lines = << >> THEN None
  ELSE quote_winner(quote_stats(lines), Len(lines))

(***************************************************************************)
(* detection/email.rs: is_valid_email                                      *)
(***************************************************************************)

\* The position of the first occurrence of c in s, or 0.
find_char(s, c) ==
  IF contains(s, c) THEN CHOOSE i \in 1..Len(s) : s[i] = c /\ \A j \in 1..(i - 1) : s[j] # c
  ELSE 0

\* EMAIL_REGEX: ^[a-zA-Z0-9._%+-]+@[a-zA-Z0-9.-]+\.[a-zA-Z]{2,}$
\* The local part is everything before the first @; the rest must be a non-empty
\* run of [a-zA-Z0-9.-], a dot, and at least two letters up to the end, so the dot
\* is the last dot of the text.
RegexLocalChar(c) == IsAsciiAlpha(c) \/ IsAsciiDigit(c) \/ c \in {46, 95, 37, 43, 45}
RegexDomainChar(c) == IsAsciiAlpha(c) \/ IsAsciiDigit(c) \/ c \in {46, 45}
email_regex_is_match(s) ==
  LET at == find_char(s, 64)
      dots == {i \in (at + 1)..Len(s) : s[i] = 46}
  IN /\ at > 1
     /\ \A i \in 1..(at - 1) : RegexLocalChar(s[i])
     /\ dots # {}
     /\ LET dot == Max(dots)
        IN /\ dot > at + 1
           /\ \A i \in (at + 1)..(dot - 1) : RegexDomainChar(s[i])
           /\ Len(s) - dot >= 2
           /\ \A i \in (dot + 1)..Len(s) : IsAsciiAlpha(s[i])

is_valid_email(email0) ==
  LET email == trim(email0)
      at_pos == find_char(email, 64)
  IN IF email = << >> THEN FALSE
     ELSE IF at_pos = 0 THEN FALSE
     ELSE IF at_pos = 1 \/ at_pos = Len(email) THEN FALSE
     ELSE IF ~contains(SubSeq(email, at_pos + 1, Len(email)), 46) THEN FALSE
     ELSE email_regex_is_match(email)

(***************************************************************************)
(* detection/delimiter.rs                                                  *)
(***************************************************************************)

is_field_delimiter(c) == \E i \in 1..Len(FIELD_DELIMS) : FIELD_DELIMS[i] = c

\* A variant of get_priority_delimiter that prefers the left neighbour.
get_priority_delimiter_left(c1, c2) == c1

\* get_priority_delimiter: the first entry of FIELD_DELIMS that is c1 or c2.
get_priority_delimiter(c1, c2) ==
  LET hits == {i \in 1..Len(FIELD_DELIMS) : FIELD_DELIMS[i] = c1 \/ FIELD_DELIMS[i] = c2}
  IN IF hits = {} THEN c1 ELSE FIELD_DELIMS[Min(hits)]

\* "Find start of local part": the position after the nearest character to the left
\* of the @ at position at that is not an EMAIL_LOCAL_CHARS character.
local_start(chars, at) ==
  LET bad == {i \in 1..(at - 1) : to_ascii_lowercase(chars[i]) \notin EMAIL_LOCAL_CHARS}
  IN IF bad = {} THEN 1 ELSE Max(bad) + 1

\* "Find end of domain": the position before the nearest character to the right of
\* the @ that is not an EMAIL_DOMAIN_CHARS character.
domain_end(chars, at) ==
  LET bad == {i \in (at + 1)..Len(chars) : to_ascii_lowercase(chars[i]) \notin EMAIL_DOMAIN_CHARS}
  IN IF bad = {} THEN Len(chars) ELSE Min(bad) - 1

\* "Extract potential email": local part, @, domain, lower-cased.
potential_email(chars, at) ==
  to_lowercase(SubSeq(chars, local_start(chars, at), at - 1))
    \o << 64 >> \o to_lowercase(SubSeq(chars, at + 1, domain_end(chars, at)))

\* "Look for delimiter after domain": the first character from position `from` on
\* that is not a space, when it is a field delimiter.
right_delim(chars, from) ==
  LET ns == {i \in from..Len(chars) : chars[i] # 32}
  IN IF ns = {} THEN None
     ELSE IF is_field_delimiter(chars[Min(ns)]) THEN Some(chars[Min(ns)]) ELSE None

\* "Look for delimiter before local part": the first character from position `from`
\* down that is not a space, when it is a field delimiter.
left_delim(chars, from) ==
  LET ns == {i \in 1..from : chars[i] # 32}
  IN IF ns = {} THEN None
     ELSE IF is_field_delimiter(chars[Max(ns)]) THEN Some(chars[Max(ns)]) ELSE None

\* "Choose delimiter based on priority"
choose_delimiter(l, r) ==
  IF l # None /\ r # None
  THEN IF l[1] = r[1] THEN Some(l[1]) ELSE Some(get_priority_delimiter(l[1], r[1]))
  ELSE IF r # None THEN r
  ELSE IF l # None THEN l
  ELSE None

\* The delimiter decided at the @ at position at, if any.
email_delimiter_at(chars, at) ==
  IF is_valid_email(potential_email(chars, at))
  THEN choose_delimiter(left_delim(chars, local_start(chars, at) - 1),
                        right_delim(chars, domain_end(chars, at) + 1))
  ELSE None

\* get_email_delimiter: the while loop visits the @ signs from left to right and
\* returns at the first one that decides a delimiter.
get_email_delimiter(line) ==
  LET deciding == {at \in 1..Len(line) : line[at] = 64 /\ email_delimiter_at(line, at) # None}
  IN IF deciding = {} THEN None ELSE email_delimiter_at(line, Min(deciding))

\* detect_delimiter_from_email: the first line, in order, that gives a delimiter.
detect_delimiter_from_email(lines) ==
  LET deciding == {n \in 1..Len(lines) : get_email_delimiter(lines[n]) # None}
  IN IF deciding = {} THEN None ELSE get_email_delimiter(lines[Min(deciding)])

\* count_delimiters: the loop over the characters, with the running count and the
\* inside_text flag.  The separator toggles the flag before the same character is
\* compared with the delimiter.
count_delimiters(delimiter, line, text_sep) ==
  LET step(acc, i) ==
        LET inside == IF text_sep # 0 /\ line[i] = text_sep
                      THEN ~acc.inside_text ELSE acc.inside_text
        IN [count |-> IF line[i] = delimiter /\ ~inside THEN acc.count + 1 ELSE acc.count,
            inside_text |-> inside]
  IN Fold(step, [count |-> 0, inside_text |-> FALSE], 1, Len(line)).count

\* The statistics loop of detect_delimiter_by_frequency: per candidate its total
\* count and the number of lines it is present in.
delim_stats(lines, text_sep) ==
  LET outer(stats, n) ==
        LET upd(st, k) ==
              LET count == count_delimiters(st[k].c, lines[n], text_sep)
              IN [st EXCEPT ![k].total = @ + count,
                            ![k].lines = @ + (IF count > 0 THEN 1 ELSE 0)]
        IN Fold(upd, stats, 1, Len(stats))
  IN Fold(outer,
          [k \in 1..Len(FIELD_DELIMS) |-> [c |-> FIELD_DELIMS[k], total |-> 0, lines |-> 0]],
          1, Len(lines))

\* A variant of best_delim in which a later candidate with an equal total replaces
\* the best so far.
best_delim_last(stats) ==
  LET pick(best, i) ==
        IF stats[i].total > 0 /\ (best = None \/ stats[i].total >= stats[best[1]].total)
        THEN Some(i) ELSE best
  IN Fold(pick, None, 1, Len(stats))

\* "Find delimiter with highest count": the first index whose total is positive and
\* strictly greater than that of the best index so far.
best_delim(stats) ==
  LET pick(best, i) ==
        IF stats[i].total > 0 /\ (best = None \/ stats[i].total > stats[best[1]].total)
        THEN Some(i) ELSE best
  IN Fold(pick, None, 1, Len(stats))

\* "Check if winner exists in at least FIELD_DELIM_PERCENT of lines"
delim_winner(stats, nlines) ==
  LET best == best_delim(stats)
  IN IF best # None /\ (stats[best[1]].lines * 100) \div nlines >= FIELD_DELIM_PERCENT
     THEN Some(stats[best[1]].c)
     ELSE None

detect_delimiter_by_frequency(lines, text_sep) ==
  IF lines = << >> THEN None
  ELSE delim_winner(delim_stats(lines, text_sep), Len(lines))

\* detect_delimiter(lines, text_sep): text_sep is an Option<char>.
detect_delimiter(lines, text_sep) ==
  LET d == detect_delimiter_from_email(lines)
  IN IF d # None THEN d
     ELSE detect_delimiter_by_frequency(lines, unwrap_or(text_sep, 0))

(***************************************************************************)
(* detection/header.rs                                                     *)
(***************************************************************************)

\* contains_valid_email: some @ of the line bounds a valid email address.
contains_valid_email(line) ==
  \E at \in 1..Len(line) :
    /\ line[at] = 64
    /\ local_start(line, at) < at
    /\ at < domain_end(line, at)
    /\ is_valid_email(potential_email(line, at))

\* A variant of has_header that looks for an email only.
has_header_email_only(lines, text_sep, delimiter) ==
  IF lines = << >> THEN TRUE ELSE ~contains_valid_email(lines[1])

has_header(lines, text_sep, delimiter) ==
  IF lines = << >> THEN TRUE
  ELSE IF contains_valid_email(lines[1]) THEN FALSE
  ELSE ~(\A i \in 1..Len(lines[1]) :
           lines[1][i] = delimiter \/ lines[1][i] = text_sep \/ is_whitespace(lines[1][i]))

(***************************************************************************)
(* error.rs, types.rs: errors                                              *)
(***************************************************************************)

\* Result<T>: Ok(v) or Err(e), e a CsvAnalyzerError.
Ok(v) == [ok |-> TRUE, val |-> v]
Err(e) == [ok |-> FALSE, err |-> e]

\* CsvAnalyzerError variants; only CsvError carries a CsvErrorType.
CsvError(t) == [variant |-> "CsvError", type |-> t]
IoError == [variant |-> "IoError", type |-> "Process"]
DatabaseError == [variant |-> "DatabaseError", type |-> "Database"]
EncodingError == [variant |-> "EncodingError", type |-> "Process"]

\* CsvAnalyzerError::error_type
error_type(e) ==
  CASE e.variant = "CsvError" -> e.type
    [] e.variant = "IoError" -> "Process"
    [] e.variant = "DatabaseError" -> "Database"
    [] e.variant = "ConfigError" -> "Process"
    [] e.variant = "EncodingError" -> "Process"

\* CsvErrorType as u8
CsvErrorCode(t) ==
  CASE t = "Process" -> 0
    [] t = "Database" -> 1
    [] t = "Sample" -> 2
    [] t = "Binary" -> 3
    [] t = "VariousFieldsCount" -> 4
    [] t = "TooMuchColumns" -> 5
    [] t = "ColumnLong" -> 6
    [] t = "ValueLong" -> 7
    [] t = "DuplicateField" -> 8
    [] t = "EmailNotFound" -> 9

\* DataType as u8
DataTypeCode(t) ==
  CASE t = "String" -> 0
    [] t = "Integer" -> 1
    [] t = "Float" -> 2
    [] t = "Boolean" -> 3
    [] t = "DateTime" -> 4

(***************************************************************************)
(* validation.rs                                                           *)
(***************************************************************************)

\* A variant of columns_bucket that counts the delimiters of a line, not its columns.
columns_bucket_delimiters(lines, delimiter, text_sep) ==
  LET step(acc, n) ==
        IF acc.failed THEN acc
        ELSE LET col_count == count_delimiters(delimiter, lines[n], text_sep)
                 b == IF col_count \in DOMAIN acc.bucket
                      THEN [acc.bucket EXCEPT ![col_count] = @ + 1]
                      ELSE (col_count :> 1) @@ acc.bucket
             IN [bucket |-> b, failed |-> Cardinality(DOMAIN b) > MAX_BUCKET]
  IN Fold(step, [bucket |-> << >>, failed |-> FALSE], 1, Len(lines))

\* The first loop of validate_columns_count: the bucket maps each column count to
\* the number of lines that have it; the loop returns as soon as the bucket holds
\* more than MAX_BUCKET distinct counts.
columns_bucket(lines, delimiter, text_sep) ==
  LET step(acc, n) ==
        IF acc.failed THEN acc
        ELSE LET col_count == count_delimiters(delimiter, lines[n], text_sep) + 1
                 b == IF col_count \in DOMAIN acc.bucket
                      THEN [acc.bucket EXCEPT ![col_count] = @ + 1]
                      ELSE (col_count :> 1) @@ acc.bucket
             IN [bucket |-> b, failed |-> Cardinality(DOMAIN b) > MAX_BUCKET]
  IN Fold(step, [bucket |-> << >>, failed |-> FALSE], 1, Len(lines))

\* A variant of is_dominant with a percentage that two column counts can reach.
is_dominant_half(occurrence, total_lines) == (occurrence * 100) \div total_lines >= 50

\* "Find the dominant column count": whether a bucket entry reaches the percentage.
is_dominant(occurrence, total_lines) ==
  (occurrence * 100) \div total_lines >= COLUMN_COUNT_PERCENT

\* The orders in which a HashMap with the key set keys can be iterated.
IterationOrders(keys) ==
  {o \in [1..Cardinality(keys) -> keys] : \A i, j \in DOMAIN o : i # j => o[i] # o[j]}

\* validate_columns_count; `order` is the order in which bucket.iter() yields the
\* column counts.  The value of Ok is the dominant column count.
validate_columns_count(lines, delimiter, text_sep, order) ==
  IF lines = << >> THEN Err(CsvError("Sample"))
  ELSE IF delimiter = 0 THEN Ok(1)
  ELSE LET b == columns_bucket(lines, delimiter, text_sep)
           hits == {i \in DOMAIN order : is_dominant(b.bucket[order[i]], Len(lines))}
       IN IF b.failed THEN Err(CsvError("VariousFieldsCount"))
          ELSE IF hits = {} THEN Err(CsvError("VariousFieldsCount"))
          ELSE IF order[Min(hits)] > MAX_COLUMNS THEN Err(CsvError("TooMuchColumns"))
          ELSE Ok(order[Min(hits)])

\* The number of bytes of the UTF-8 encoding of a character.
len_utf8(c) == IF c < 128 THEN 1 ELSE IF c < 2048 THEN 2 ELSE IF c < 65536 THEN 3 ELSE 4

\* str::len: the length of a string in bytes.
str_len(s) ==
  LET add(n, i) == n + len_utf8(s[i])
  IN Fold(add, 0, 1, Len(s))

is_valid_string_size(s) == str_len(s) <= MAX_STRING_SIZE

\* A variant of check_duplicate_fields that accepts every header.
check_duplicate_fields_never(headers) == Ok(TRUE)

\* check_duplicate_fields: an error when a header equals an earlier one ignoring case.
check_duplicate_fields(headers) ==
  IF \E i, j \in 1..Len(headers) : i < j /\ to_lowercase(headers[i]) = to_lowercase(headers[j])
  THEN Err(CsvError("DuplicateField"))
  ELSE Ok(TRUE)

\* True when data starts with the bytes of prefix.
starts_with(data, prefix) ==
  Len(data) >= Len(prefix) /\ \A i \in 1..Len(prefix) : data[i] = prefix[i]

UTF8_BOM == << 239, 187, 191 >>
UTF16_LE_BOM == << 255, 254 >>
UTF16_BE_BOM == << 254, 255 >>

\* "Count unprintable characters"
is_unprintable(b) == b < 32 \/ b = 255 \/ (b >= 127 /\ b <= 160)

\* "Check first line only": the bytes before the first newline, at most 1024.
first_line(data) ==
  LET nl == find_char(data, 10)
      first_line_end == IF nl = 0 THEN Len(data) ELSE nl - 1
  IN SubSeq(data, 1, IF first_line_end < 1024 THEN first_line_end ELSE 1024)

\* "Skip BOM checks"
skip_bom(sample) ==
  IF Len(sample) >= 3 /\ starts_with(sample, UTF8_BOM) THEN SubSeq(sample, 4, Len(sample))
  ELSE IF Len(sample) >= 2 /\ (starts_with(sample, UTF16_LE_BOM) \/ starts_with(sample, UTF16_BE_BOM))
       THEN SubSeq(sample, 3, Len(sample))
  ELSE sample

\* A variant of is_binary_data that needs more than 20% unprintable bytes.
is_binary_data_above(data) ==
  IF data = << >> THEN FALSE
  ELSE LET sample == skip_bom(first_line(data))
           unprintable_count == Cardinality({i \in 1..Len(sample) : is_unprintable(sample[i])})
       IN IF sample = << >> THEN FALSE
          ELSE (unprintable_count * 100) \div Len(sample) > 20

is_binary_data(data) ==
  IF data = << >> THEN FALSE
  ELSE LET sample == skip_bom(first_line(data))
           unprintable_count == Cardinality({i \in 1..Len(sample) : is_unprintable(sample[i])})
       IN IF sample = << >> THEN FALSE
          ELSE (unprintable_count * 100) \div Len(sample) >= 20

(***************************************************************************)
(* detection/charset.rs                                                    *)
(***************************************************************************)

is_ascii(data) == \A i \in 1..Len(data) : data[i] < 128

\* The UTF-8 decoder as a loop over the bytes: `need` continuation bytes are still
\* expected, each within lower..upper, `cp` is the code point so far, `out` the
\* characters decoded, and `bad` records a malformed sequence (which decodes to
\* U+FFFD; the byte that ended it is then decoded as the start of a sequence).
utf8_start(st, b) ==
  IF b <= 127 THEN [st EXCEPT !.out = Append(@, b)]
  ELSE IF b \in 194..223 THEN [st EXCEPT !.need = 1, !.seen = 0, !.cp = b - 192]
  ELSE IF b \in 224..239
       THEN [st EXCEPT !.need = 2, !.seen = 0, !.cp = b - 224,
                       !.lower = IF b = 224 THEN 160 ELSE 128,
                       !.upper = IF b = 237 THEN 159 ELSE 191]
  ELSE IF b \in 240..244
       THEN [st EXCEPT !.need = 3, !.seen = 0, !.cp = b - 240,
                       !.lower = IF b = 240 THEN 144 ELSE 128,
                       !.upper = IF b = 244 THEN 143 ELSE 191]
  ELSE [st EXCEPT !.out = Append(@, 65533), !.bad = TRUE]

utf8_decode(data) ==
  LET init == [need |-> 0, seen |-> 0, lower |-> 128, upper |-> 191, cp |-> 0,
               out |-> << >>, bad |-> FALSE]
      step(st, i) ==
        IF st.need = 0 THEN utf8_start(st, data[i])
        ELSE IF data[i] < st.lower \/ data[i] > st.upper
             THEN utf8_start([st EXCEPT !.need = 0, !.seen = 0, !.cp = 0,
                                        !.lower = 128, !.upper = 191,
                                        !.out = Append(@, 65533), !.bad = TRUE],
                             data[i])
             ELSE IF st.seen + 1 = st.need
                  THEN [st EXCEPT !.need = 0, !.seen = 0, !.cp = 0,
                                  !.lower = 128, !.upper = 191,
                                  !.out = Append(@, st.cp * 64 + (data[i] - 128))]
                  ELSE [st EXCEPT !.seen = @ + 1, !.lower = 128, !.upper = 191,
                                  !.cp = @ * 64 + (data[i] - 128)]
      last == Fold(step, init, 1, Len(data))
  IN IF last.need = 0 THEN last
     ELSE [last EXCEPT !.out = Append(@, 65533), !.bad = TRUE]

\* std::str::from_utf8(data).is_ok()
is_valid_utf8(data) == ~utf8_decode(data).bad

\* The statistical detector (chardetng), an external library: for input that is
\* valid UTF-8 it answers UTF-8, and for the single-byte text this model feeds it,
\* windows-1252.  It is a function of the data alone.
chardetng_guess(data) == IF is_valid_utf8(data) THEN "UTF-8" ELSE "windows-1252"

\* normalize_encoding, on the names the detector answers here.
normalize_encoding(name) ==
  CASE name = "UTF-8" -> "utf8"
    [] name = "UTF-16LE" -> "UTF-16LE"
    [] name = "UTF-16BE" -> "UTF-16BE"
    [] name = "windows-1252" -> "cp1252"

guess_encoding_quick(data) ==
  IF is_ascii(data) THEN "ansi"
  ELSE IF is_valid_utf8(data) THEN "utf8"
  ELSE normalize_encoding(chardetng_guess(data))

\* A variant of detect_charset that looks at the byte order marks of large
\* samples only.
detect_charset_guess_first(data) ==
  IF Len(data) <= CSVA_GUESS_SIZE THEN guess_encoding_quick(data)
  ELSE IF starts_with(data, UTF8_BOM) THEN "UTF-8BOM"
  ELSE IF Len(data) >= 2 /\ starts_with(data, UTF16_LE_BOM) THEN "UTF-16LE"
  ELSE IF Len(data) >= 2 /\ starts_with(data, UTF16_BE_BOM) THEN "UTF-16BE"
  ELSE IF is_ascii(data) THEN "ansi"
  ELSE normalize_encoding(chardetng_guess(data))

detect_charset(data) ==
  IF starts_with(data, UTF8_BOM) THEN "UTF-8BOM"
  ELSE IF Len(data) >= 2 /\ starts_with(data, UTF16_LE_BOM) THEN "UTF-16LE"
  ELSE IF Len(data) >= 2 /\ starts_with(data, UTF16_BE_BOM) THEN "UTF-16BE"
  ELSE IF Len(data) <= CSVA_GUESS_SIZE THEN guess_encoding_quick(data)
  ELSE IF is_ascii(data) THEN "ansi"
  ELSE normalize_encoding(chardetng_guess(data))

\* UTF-16 decoding with replacement: the code units are pairs of bytes, a high
\* surrogate followed by a low one is one character, any other surrogate and a
\* trailing odd byte decode to U+FFFD.
utf16_decode(data, big_endian) ==
  LET unit(k) == IF big_endian THEN data[2 * k - 1] * 256 + data[2 * k]
                 ELSE data[2 * k] * 256 + data[2 * k - 1]
      plain(st, u) ==
        IF u \in 55296..56319 THEN [st EXCEPT !.lead = u]
        ELSE IF u \in 56320..57343 THEN [st EXCEPT !.out = Append(@, 65533)]
        ELSE [st EXCEPT !.out = Append(@, u)]
      step(st, k) ==
        IF st.lead = 0 THEN plain(st, unit(k))
        ELSE IF unit(k) \in 56320..57343
             THEN [lead |-> 0,
                   out |-> Append(st.out, 65536 + (st.lead - 55296) * 1024 + (unit(k) - 56320))]
             ELSE plain([lead |-> 0, out |-> Append(st.out, 65533)], unit(k))
      last == Fold(step, [lead |-> 0, out |-> << >>], 1, Len(data) \div 2)
      flushed == IF last.lead = 0 THEN last.out ELSE Append(last.out, 65533)
  IN IF Len(data) % 2 = 1 THEN Append(flushed, 65533) ELSE flushed

\* The windows-1252 code page: 0x80..0x9F are the table below, every other byte is
\* the character with the same number.
WINDOWS_1252_HIGH ==
  << 8364, 129, 8218, 402, 8222, 8230, 8224, 8225, 710, 8240, 352, 8249, 338, 141, 381, 143,
     144, 8216, 8217, 8220, 8221, 8226, 8211, 8212, 732, 8482, 353, 8250, 339, 157, 382, 376 >>
windows_1252_decode(data) ==
  [i \in 1..Len(data) |->
     IF data[i] \in 128..159 THEN WINDOWS_1252_HIGH[data[i] - 127] ELSE data[i]]

\* Encoding::decode: a byte order mark at the start of the data overrides the
\* encoding and is removed; malformed sequences are replaced.
encoding_decode(encoding, data) ==
  LET sniffed == IF starts_with(data, UTF8_BOM) THEN "UTF_8"
                 ELSE IF starts_with(data, UTF16_LE_BOM) THEN "UTF_16LE"
                 ELSE IF starts_with(data, UTF16_BE_BOM) THEN "UTF_16BE"
                 ELSE encoding
      rest == IF starts_with(data, UTF8_BOM) THEN SubSeq(data, 4, Len(data))
              ELSE IF starts_with(data, UTF16_LE_BOM) \/ starts_with(data, UTF16_BE_BOM)
                   THEN SubSeq(data, 3, Len(data))
              ELSE data
  IN CASE sniffed = "UTF_8" -> utf8_decode(rest).out
       [] sniffed = "UTF_16LE" -> utf16_decode(rest, FALSE)
       [] sniffed = "UTF_16BE" -> utf16_decode(rest, TRUE)
       [] sniffed = "WINDOWS_1252" -> windows_1252_decode(rest)

\* convert_to_utf8 for the labels detect_charset gives here.  Ok holds the text.
convert_to_utf8(data0, charset) ==
  LET data == IF charset = "UTF-8BOM" /\ starts_with(data0, UTF8_BOM)
              THEN SubSeq(data0, 4, Len(data0))
              ELSE IF charset = "UTF-16LE" /\ Len(data0) >= 2 /\ starts_with(data0, UTF16_LE_BOM)
                   THEN SubSeq(data0, 3, Len(data0))
              ELSE IF charset = "UTF-16BE" /\ Len(data0) >= 2 /\ starts_with(data0, UTF16_BE_BOM)
                   THEN SubSeq(data0, 3, Len(data0))
              ELSE data0
  IN IF charset \in {"utf8", "UTF-8BOM", "ansi"}
     THEN IF is_valid_utf8(data) THEN Ok(utf8_decode(data).out) ELSE Err(EncodingError)
     ELSE Ok(encoding_decode(CASE charset = "UTF-16LE" -> "UTF_16LE"
                               [] charset = "UTF-16BE" -> "UTF_16BE"
                               [] charset = "cp1252" -> "WINDOWS_1252",
                             data))

(***************************************************************************)
(* detection/email.rs: detect_email_column                                 *)
(***************************************************************************)

\* "First check if header has email or e-mail": the headers that name the column.
EMAIL_NAME == Str(<< "e", "m", "a", "i", "l" >>)
E_MAIL_NAME == Str(<< "e", "-", "m", "a", "i", "l" >>)
\* A variant of header_names_email that compares the header names as written.
header_names_email_exact(headers) ==
  {i \in 1..Len(headers) : headers[i] = EMAIL_NAME \/ headers[i] = E_MAIL_NAME}

header_names_email(headers) ==
  {i \in 1..Len(headers) :
     to_lowercase(headers[i]) = EMAIL_NAME \/ to_lowercase(headers[i]) = E_MAIL_NAME}

\* "Count valid emails in each column": the tally of column col (1-based) over the
\* rows; a row shorter than the column does not count.
email_count(rows, col) ==
  Cardinality({r \in 1..Len(rows) :
                 col <= Len(rows[r]) /\ rows[r][col] # << >> /\ is_valid_email(rows[r][col])})

\* A variant of best_email_column in which a later column with an equal tally
\* replaces the best so far.
best_email_column_last(email_counts) ==
  LET pick(acc, col) ==
        IF email_counts[col] >= acc.best_count
        THEN [best_count |-> email_counts[col], best_col |-> Some(col)]
        ELSE acc
  IN Fold(pick, [best_count |-> 0, best_col |-> None], 1, Len(email_counts)).best_col

\* "Find column with most valid emails": the first column whose tally is greater
\* than that of every column before it and than zero.
best_email_column(email_counts) ==
  LET pick(acc, col) ==
        IF email_counts[col] > acc.best_count
        THEN [best_count |-> email_counts[col], best_col |-> Some(col)]
        ELSE acc
  IN Fold(pick, [best_count |-> 0, best_col |-> None], 1, Len(email_counts)).best_col

\* detect_email_column(rows, header, skip_header): header is an Option of the header
\* names; the result is an Option of the column, 1-based here (0-based in the code).
detect_email_column(rows, header, skip_header) ==
  IF rows = << >> THEN None
  ELSE IF Len(rows[1]) = 0 THEN None
  ELSE IF skip_header /\ header # None /\ header_names_email(header[1]) # {}
       THEN Some(Min(header_names_email(header[1])))
  ELSE LET email_counts == [col \in 1..Len(rows[1]) |-> email_count(rows, col)]
           best_col == best_email_column(email_counts)
           e_mail == IF header = None THEN {}
                     ELSE {i \in 1..Len(header[1]) : to_lowercase(header[1][i]) = E_MAIL_NAME}
       IN IF best_col = None /\ skip_header /\ e_mail # {}
          THEN Some(Min(e_mail))
          ELSE best_col

(***************************************************************************)
(* db.rs                                                                   *)
(***************************************************************************)

\* match_property: the first property whose name equals the header ignoring case.
match_property(header, properties) ==
  LET hits == {i \in 1..Len(properties) :
                 to_lowercase(properties[i].name) = to_lowercase(header)}
  IN IF hits = {} THEN None ELSE Some(properties[Min(hits)])

(***************************************************************************)
(* analyzer.rs: read_sample, str::lines, parse_line                        *)
(***************************************************************************)

\* read_sample: the bytes are taken in order until the sample holds more than
\* MAX_SCAN_LINES newline bytes or MAX_BYTES bytes.  Ok holds the sample.
sample_bytes(file) ==
  LET nl == {i \in 1..Len(file) : file[i] = 10}
      by_lines == IF Cardinality(nl) > MAX_SCAN_LINES
                  THEN CHOOSE p \in nl : Cardinality({q \in nl : q <= p}) = MAX_SCAN_LINES + 1
                  ELSE Len(file)
      cut == IF by_lines < MAX_BYTES THEN by_lines ELSE MAX_BYTES
  IN SubSeq(file, 1, cut)

\* A variant of read_sample that only refuses the empty sample.
read_sample_nonempty(file, can_open) ==
  IF ~can_open THEN Err(IoError)
  ELSE IF sample_bytes(file) = << >> THEN Err(CsvError("Sample"))
  ELSE Ok(sample_bytes(file))

read_sample(file, can_open) ==
  IF ~can_open THEN Err(IoError)
  ELSE IF sample_bytes(file) = << >> \/ ~contains(sample_bytes(file), 10)
       THEN Err(CsvError("Sample"))
  ELSE Ok(sample_bytes(file))

\* str::lines: the text is cut after every newline; the newline, and a carriage
\* return right before it, are not part of the line; what follows the last newline
\* is a line when it is not empty.
str_lines(text) ==
  LET strip_cr(l) == IF l # << >> /\ l[Len(l)] = 13 THEN SubSeq(l, 1, Len(l) - 1) ELSE l
      step(acc, i) ==
        IF text[i] = 10
        THEN [lines |-> Append(acc.lines, strip_cr(acc.cur)), cur |-> << >>]
        ELSE [acc EXCEPT !.cur = Append(@, text[i])]
      last == Fold(step, [lines |-> << >>, cur |-> << >>], 1, Len(text))
  IN IF last.cur = << >> THEN last.lines ELSE Append(last.lines, last.cur)

\* text.lines().take(MAX_SCAN_LINES + 1)
sampled_lines(text) ==
  LET all == str_lines(text)
  IN IF Len(all) > MAX_SCAN_LINES + 1 THEN SubSeq(all, 1, MAX_SCAN_LINES + 1) ELSE all

\* A variant of parse_line that does not trim the fields.
parse_line_untrimmed(line, field_delim, text_sep) ==
  IF field_delim = 0 THEN << line >>
  ELSE LET step(acc, i) ==
             IF line[i] = text_sep
             THEN [acc EXCEPT !.inside_quotes = ~@]
             ELSE IF line[i] = field_delim /\ ~acc.inside_quotes
                  THEN [acc EXCEPT !.fields = Append(@, acc.current_field),
                                   !.current_field = << >>]
                  ELSE [acc EXCEPT !.current_field = Append(@, line[i])]
           last == Fold(step,
                        [fields |-> << >>, current_field |-> << >>, inside_quotes |-> FALSE],
                        1, Len(line))
       IN Append(last.fields, last.current_field)

\* A variant of parse_line that splits at the delimiters inside quotes as well.
parse_line_everywhere(line, field_delim, text_sep) ==
  IF field_delim = 0 THEN << line >>
  ELSE LET step(acc, i) ==
             IF line[i] = text_sep
             THEN acc
             ELSE IF line[i] = field_delim
                  THEN [acc EXCEPT !.fields = Append(@, trim(acc.current_field)),
                                   !.current_field = << >>]
                  ELSE [acc EXCEPT !.current_field = Append(@, line[i])]
           last == Fold(step, [fields |-> << >>, current_field |-> << >>], 1, Len(line))
       IN Append(last.fields, trim(last.current_field))

\* parse_line: the loop over the characters with the fields so far, the current
\* field and the inside_quotes flag.
parse_line(line, field_delim, text_sep) ==
  IF field_delim = 0 THEN << line >>
  ELSE LET step(acc, i) ==
             IF line[i] = text_sep
             THEN [acc EXCEPT !.inside_quotes = ~@]
             ELSE IF line[i] = field_delim /\ ~acc.inside_quotes
                  THEN [acc EXCEPT !.fields = Append(@, trim(acc.current_field)),
                                   !.current_field = << >>]
                  ELSE [acc EXCEPT !.current_field = Append(@, line[i])]
           last == Fold(step,
                        [fields |-> << >>, current_field |-> << >>, inside_quotes |-> FALSE],
                        1, Len(line))
       IN Append(last.fields, trim(last.current_field))

\* parse_csv
parse_csv(lines, field_delim, text_sep) ==
  [n \in 1..Len(lines) |-> parse_line(lines[n], field_delim, text_sep)]

(***************************************************************************)
(* detection/datetime.rs                                                   *)
(***************************************************************************)

\* DATE_PATTERNS (types.rs) in the order DateTimePatterns::new pushes them: the
\* pattern, its separator, and the order of its three fields.
DATE_PATTERNS ==
  << [pattern |-> "yyyy-mm-dd", separator |-> 45, fields |-> << "Y", "m", "d" >>],
     [pattern |-> "dd-mm-yyyy", separator |-> 45, fields |-> << "d", "m", "Y" >>],
     [pattern |-> "dd/mm/yyyy", separator |-> 47, fields |-> << "d", "m", "Y" >>],
     [pattern |-> "dd.mm.yyyy", separator |-> 46, fields |-> << "d", "m", "Y" >>],
     [pattern |-> "yyyy.dd.mm", separator |-> 46, fields |-> << "Y", "d", "m" >>],
     [pattern |-> "yyyy.mm.dd", separator |-> 46, fields |-> << "Y", "m", "d" >>],
     [pattern |-> "yyyy/mm/dd", separator |-> 47, fields |-> << "Y", "m", "d" >>],
     [pattern |-> "mm/dd/yyyy", separator |-> 47, fields |-> << "m", "d", "Y" >>],
     [pattern |-> "mm.dd.yyyy", separator |-> 46, fields |-> << "m", "d", "Y" >>],
     [pattern |-> "mm-dd-yyyy", separator |-> 45, fields |-> << "m", "d", "Y" >>] >>

\* TIME_PATTERNS (types.rs): the pattern, its separator, and its numeric fields.
TIME_PATTERNS ==
  << [pattern |-> "hh:nn:ss am/pm", separator |-> 58, fields |-> << "H", "M", "S" >>],
     [pattern |-> "hh:nn:ss", separator |-> 58, fields |-> << "H", "M", "S" >>],
     [pattern |-> "hh:nn am/pm", separator |-> 58, fields |-> << "H", "M" >>],
     [pattern |-> "hh:nn", separator |-> 58, fields |-> << "H", "M" >>] >>

\* DateTimePatterns::new
DateTimePatterns_new ==
  [date_patterns |-> << [pattern |-> "rfc3339", separator |-> 45, fields |-> << >>] >>
                       \o DATE_PATTERNS,
   time_patterns |-> TIME_PATTERNS]

\* A variant of format_string that takes the last date candidate.
format_string_last(p) ==
  IF p.date_patterns = << >> THEN None
  ELSE IF p.time_patterns = << >> THEN Some(<< p.date_patterns[Len(p.date_patterns)].pattern >>)
  ELSE Some(<< p.date_patterns[Len(p.date_patterns)].pattern, " ", p.time_patterns[1].pattern >>)

\* DateTimePatterns::format_string: the format as the list of its parts.
format_string(p) ==
  IF p.date_patterns = << >> THEN None
  ELSE IF p.time_patterns = << >> THEN Some(<< p.date_patterns[1].pattern >>)
  ELSE Some(<< p.date_patterns[1].pattern, " ", p.time_patterns[1].pattern >>)

\* String::len of a part of a format.
pattern_len(name) ==
  CASE name = "rfc3339" -> 7
    [] name = "hh:nn:ss am/pm" -> 14
    [] name = "hh:nn:ss" -> 8
    [] name = "hh:nn am/pm" -> 11
    [] name = "hh:nn" -> 5
    [] name = " " -> 1
    [] OTHER -> 10

\* fmt.len()
format_len(fmt) ==
  LET add(n, i) == n + pattern_len(fmt[i])
  IN Fold(add, 0, 1, Len(fmt))

DATE_SEPS == << 47, 45, 46 >>
TIME_SEPS == << 58 >>
is_date_sep(c) == \E i \in 1..Len(DATE_SEPS) : DATE_SEPS[i] = c
is_time_sep(c) == \E i \in 1..Len(TIME_SEPS) : TIME_SEPS[i] = c

could_be_datetime(value) ==
  /\ value # << >>
  /\ \E i \in 1..Len(value) : IsAsciiDigit(value[i])
  /\ \E i \in 1..Len(value) : is_date_sep(value[i]) \/ is_time_sep(value[i])

\* The number of ASCII digits of s from position pos on, at most width.
digits_at(s, pos, width) ==
  IF pos > Len(s) THEN 0
  ELSE Min({width} \cup {i - pos : i \in {j \in pos..(Len(s) + 1) :
                                            j = Len(s) + 1 \/ ~IsAsciiDigit(s[j])}})

\* The number written by the digits s[lo..hi].
number_at(s, lo, hi) ==
  LET add(n, i) == n * 10 + (s[i] - 48)
  IN Fold(add, 0, lo, hi)

is_leap_year(y) == (y % 4 = 0 /\ y % 100 # 0) \/ y % 400 = 0
days_in_month(y, m) ==
  IF m = 2 THEN (IF is_leap_year(y) THEN 29 ELSE 28)
  ELSE IF m \in {4, 6, 9, 11} THEN 30 ELSE 31

\* NaiveDate::from_ymd_opt(y, m, d).is_some()
is_valid_date(y, m, d) ==
  /\ y \in -262143..262142
  /\ m \in 1..12
  /\ d \in 1..days_in_month(y, m)

\* The n digits of s from position `from` as a scanned number: its value and the
\* position after it, or None when there is no digit.
scanned(s, from, n, negative) ==
  IF n = 0 THEN None
  ELSE Some([value |-> IF negative THEN 0 - number_at(s, from, from + n - 1)
                       ELSE number_at(s, from, from + n - 1),
             next |-> from + n])

\* One numeric item of a chrono format at position pos: %Y takes a sign and then
\* digits, or without a sign at most 4 digits; %m, %d, %H, %I, %M, %S take at
\* most 2.
scan_item(s, pos, kind) ==
  IF kind = "Y" /\ pos <= Len(s) /\ s[pos] \in {43, 45}
  THEN scanned(s, pos + 1, digits_at(s, pos + 1, 7), s[pos] = 45)
  ELSE scanned(s, pos, digits_at(s, pos, IF kind = "Y" THEN 4 ELSE 2), FALSE)

\* The parser after the item of field k of n: the literal separator must follow
\* every item but the last.
after_item(s, sep, acc, kind, more, item) ==
  IF item = None THEN [acc EXCEPT !.ok = FALSE]
  ELSE IF more /\ (item[1].next > Len(s) \/ s[item[1].next] # sep)
  THEN [acc EXCEPT !.ok = FALSE]
  ELSE [ok |-> TRUE,
        pos |-> IF more THEN item[1].next + 1 ELSE item[1].next,
        val |-> [acc.val EXCEPT ![kind] = item[1].value]]

\* chrono parsing s by the numeric items `fields` joined by the literal sep: the
\* values of the items and the position after the last.
parse_items(s, fields, sep) ==
  LET step(acc, k) ==
        IF ~acc.ok THEN acc
        ELSE after_item(s, sep, acc, fields[k], k < Len(fields),
                        scan_item(s, acc.pos, fields[k]))
  IN Fold(step,
          [ok |-> TRUE, pos |-> 1, val |-> [Y |-> 0, m |-> 0, d |-> 0, H |-> 0, M |-> 0, S |-> 0]],
          1, Len(fields))

\* The items of a date were parsed, nothing follows them, and they are a date.
date_parsed(s, p) ==
  p.ok /\ p.pos = Len(s) + 1 /\ is_valid_date(p.val.Y, p.val.m, p.val.d)

\* NaiveDate::parse_from_str(s, pattern_to_chrono(pattern, sep)).is_ok()
parse_date(s, fields, sep) == date_parsed(s, parse_items(s, fields, sep))

\* str::split_whitespace: the maximal runs of characters that are not white space.
split_whitespace(s) ==
  LET step(acc, i) ==
        IF is_whitespace(s[i])
        THEN IF acc.cur = << >> THEN acc
             ELSE [parts |-> Append(acc.parts, acc.cur), cur |-> << >>]
        ELSE IF i = Len(s)
             THEN [parts |-> Append(acc.parts, Append(acc.cur, s[i])), cur |-> << >>]
             ELSE [acc EXCEPT !.cur = Append(@, s[i])]
  IN Fold(step, [parts |-> << >>, cur |-> << >>], 1, Len(s)).parts

\* parts.nth(n).unwrap_or(default), n counted from 1 here.
nth_or(parts, n, default) == IF Len(parts) >= n THEN parts[n] ELSE default

\* try_parse_date(value, pattern, date_sep, time_sep): the date part is the first
\* white-space separated part when the value has a time separator.  The date
\* followed by " 00:00:00" parses with the format followed by " %H:%M:%S" exactly
\* when the date parses with the format.
try_parse_date(value, pat, date_sep, time_sep) ==
  parse_date(IF time_sep # None THEN nth_or(split_whitespace(value), 1, value) ELSE value,
             pat.fields, date_sep)

\* The items of a time were parsed and are a time of day; an am/pm format has a
\* 12-hour hour and ends, after optional white space, in AM or PM in either case.
time_parsed(s, am_pm, p) ==
  /\ p.ok
  /\ p.val.M \in 0..59
  /\ p.val.S \in 0..60
  /\ IF am_pm
     THEN /\ p.val.H \in 1..12
          /\ to_lowercase(SubSeq(s, p.pos, Len(s))) \in {Str(<< "a", "m" >>), Str(<< "p", "m" >>)}
     ELSE /\ p.val.H \in 0..23
          /\ p.pos = Len(s) + 1

\* NaiveTime::parse_from_str(s, time_pattern_to_chrono(pattern)).is_ok()
parse_time(s, pat) ==
  time_parsed(s, pat.pattern \in {"hh:nn:ss am/pm", "hh:nn am/pm"},
              parse_items(s, pat.fields, 58))

\* try_parse_time(value, pattern): the time part is the second white-space
\* separated part of the value.
try_parse_time(value, pat) ==
  parse_time(nth_or(split_whitespace(value), 2, << >>), pat)

\* The two digits of s at pos as a number, or -1.
two_digits(s, pos) ==
  IF digits_at(s, pos, 2) = 2 THEN number_at(s, pos, pos + 1) ELSE 0 - 1

\* The zone of an RFC 3339 time at position z of s: Z, or a numeric offset.
rfc3339_zone(s, z) ==
  /\ z <= Len(s)
  /\ \/ s[z] \in {90, 122} /\ Len(s) = z
     \/ /\ s[z] \in {43, 45} /\ Len(s) = z + 5 /\ s[z + 3] = 58
        /\ two_digits(s, z + 1) \in 0..23 /\ two_digits(s, z + 4) \in 0..59

\* DateTime::parse_from_rfc3339: yyyy-mm-ddThh:mm:ss, an optional fraction, and
\* the zone.
parse_rfc3339(s) ==
  /\ Len(s) >= 20
  /\ digits_at(s, 1, 4) = 4 /\ s[5] = 45 /\ s[8] = 45 /\ s[11] \in {84, 116}
  /\ s[14] = 58 /\ s[17] = 58
  /\ is_valid_date(number_at(s, 1, 4), two_digits(s, 6), two_digits(s, 9))
  /\ two_digits(s, 12) \in 0..23
  /\ two_digits(s, 15) \in 0..59
  /\ two_digits(s, 18) \in 0..60
  /\ IF s[20] = 46
     THEN digits_at(s, 21, Len(s)) > 0 /\ rfc3339_zone(s, 21 + digits_at(s, 21, Len(s)))
     ELSE rfc3339_zone(s, 20)

\* is_rfc3339: the two parse_from_str alternatives name no offset item, which a
\* DateTime needs, so only parse_from_rfc3339 can succeed.
is_rfc3339(value) ==
  /\ str_len(value) >= 11
  /\ Len(value) >= 11
  /\ value[11] \in {84, 116}
  /\ parse_rfc3339(value)

\* value.chars().find(|c| seps.contains(c))
find_sep(value, IsSep(_)) ==
  IF \E i \in 1..Len(value) : IsSep(value[i])
  THEN Some(value[Min({i \in 1..Len(value) : IsSep(value[i])})])
  ELSE None

\* What guess_datetime_format leaves in `patterns` and returns.
guessed(date_patterns, time_patterns, matched) ==
  [patterns |-> [date_patterns |-> date_patterns, time_patterns |-> time_patterns],
   matched |-> matched]

\* "Try to parse with each remaining date pattern"
valid_date_patterns(value, date_patterns, time_sep) ==
  LET parses(p) == try_parse_date(value, p, p.separator, time_sep)
  IN SelectSeq(date_patterns, parses)

\* "If we have a time separator, validate time patterns too"
valid_time_patterns(value, time_patterns, time_sep) ==
  LET keep(t) == t.separator = time_sep[1] /\ try_parse_time(value, t)
  IN IF time_sep = None THEN << >> ELSE SelectSeq(time_patterns, keep)

\* The end of guess_datetime_format: !patterns.date_patterns.is_empty()
guessed_dates(date_patterns, time_patterns) ==
  guessed(date_patterns, time_patterns, date_patterns # << >>)

\* guess_datetime_format after "Filter date patterns by separator".
guess_filtered(value, date_patterns, time_patterns, time_sep) ==
  LET is_rfc(p) == p.pattern = "rfc3339"
      not_rfc(p) == p.pattern # "rfc3339"
  IN IF SelectSeq(date_patterns, is_rfc) # << >> /\ is_rfc3339(value)
     THEN guessed(SelectSeq(date_patterns, is_rfc), << >>, TRUE)
     ELSE guessed_dates(valid_date_patterns(value, SelectSeq(date_patterns, not_rfc), time_sep),
                        valid_time_patterns(value, time_patterns, time_sep))

\* guess_datetime_format after "Detect separators in the value".
guess_separated(value, patterns, date_sep, time_sep) ==
  LET by_sep(p) == p.separator = date_sep[1] \/ p.pattern = "rfc3339"
  IN IF date_sep = None THEN guessed(<< >>, << >>, FALSE)
     ELSE guess_filtered(value, SelectSeq(patterns.date_patterns, by_sep),
                         patterns.time_patterns, time_sep)

\* guess_datetime_format after let value = value.trim()
guess_trimmed(value, patterns) ==
  IF value = << >>
  THEN guessed(patterns.date_patterns, patterns.time_patterns, patterns.date_patterns # << >>)
  ELSE guess_separated(value, patterns, find_sep(value, is_date_sep),
                       find_sep(value, is_time_sep))

\* guess_datetime_format(value, patterns): the narrowed patterns and the result.
guess_datetime_format(value, patterns) == guess_trimmed(trim(value), patterns)

(***************************************************************************)
(* detection/datatype.rs                                                   *)
(***************************************************************************)

TRUE_STR == Str(<< "t", "r", "u", "e" >>)
FALSE_STR == Str(<< "f", "a", "l", "s", "e" >>)

\* The characters is_string_value allows: the digits and . , - +
NUMERIC_CHARS == (48..57) \cup {46, 44, 45, 43}

is_string_value(value) ==
  IF to_lowercase(value) \in {TRUE_STR, FALSE_STR} THEN FALSE
  ELSE \E i \in 1..Len(value) : value[i] \notin NUMERIC_CHARS

\* A variant of try_parse_boolean that does not tell the string form from 0 and 1.
try_parse_boolean_plain(value) ==
  IF to_lowercase(value) \in {TRUE_STR, FALSE_STR} \/ value = << 48 >> \/ value = << 49 >>
  THEN Some(FALSE)
  ELSE None

\* try_parse_boolean: Some(TRUE) for the string form, Some(FALSE) for 0 and 1.
try_parse_boolean(value) ==
  IF to_lowercase(value) \in {TRUE_STR, FALSE_STR} THEN Some(TRUE)
  ELSE IF value = << 48 >> \/ value = << 49 >> THEN Some(FALSE)
  ELSE None

\* The digits of i64::MAX, 9223372036854775807, and of the magnitude of i64::MIN.
I64_MAX_DIGITS == << 57, 50, 50, 51, 51, 55, 50, 48, 51, 54, 56, 53, 52, 55, 55, 53, 56, 48, 55 >>
I64_MIN_DIGITS == << 57, 50, 50, 51, 51, 55, 50, 48, 51, 54, 56, 53, 52, 55, 55, 53, 56, 48, 56 >>

\* The digit string a without its leading zeros.
strip_zeros(a) ==
  IF \A i \in 1..Len(a) : a[i] = 48 THEN << >>
  ELSE SubSeq(a, Min({i \in 1..Len(a) : a[i] # 48}), Len(a))

\* The number written by the digits a is at most the one written by limit.
digits_le(a, limit) ==
  \/ Len(a) < Len(limit)
  \/ /\ Len(a) = Len(limit)
     /\ \/ a = limit
        \/ \E i \in 1..Len(a) : a[i] < limit[i] /\ \A j \in 1..(i - 1) : a[j] = limit[j]

\* The digits after the sign parse as an i64 of that sign.
parse_i64_digits(digits, negative) ==
  /\ digits # << >>
  /\ \A i \in 1..Len(digits) : IsAsciiDigit(digits[i])
  /\ digits_le(strip_zeros(digits), IF negative THEN I64_MIN_DIGITS ELSE I64_MAX_DIGITS)

\* value.parse::<i64>().is_ok(): an optional sign, digits, and a value in range.
try_parse_integer(value) ==
  IF value # << >> /\ value[1] \in {43, 45}
  THEN parse_i64_digits(Tail(value), value[1] = 45)
  ELSE parse_i64_digits(value, FALSE)

\* str::replace(from, to) for single characters.
replace_char(s, from, to) == [i \in 1..Len(s) |-> IF s[i] = from THEN to ELSE s[i]]

\* The mantissa of a decimal float: digits with at most one point, at least one digit.
mantissa_ok(mant) ==
  /\ \A i \in 1..Len(mant) : IsAsciiDigit(mant[i]) \/ mant[i] = 46
  /\ Cardinality({i \in 1..Len(mant) : mant[i] = 46}) <= 1
  /\ \E i \in 1..Len(mant) : IsAsciiDigit(mant[i])

\* The exponent after the e: an optional sign and at least one digit.
exponent_ok(exp) ==
  IF exp # << >> /\ exp[1] \in {43, 45}
  THEN Len(exp) > 1 /\ \A i \in 2..Len(exp) : IsAsciiDigit(exp[i])
  ELSE exp # << >> /\ \A i \in 1..Len(exp) : IsAsciiDigit(exp[i])

\* A float without its sign: inf, infinity or nan in any case, or a mantissa and
\* an optional exponent.
parse_f64_body(body) ==
  \/ to_lowercase(body) \in {Str(<< "i", "n", "f" >>), Str(<< "n", "a", "n" >>),
                             Str(<< "i", "n", "f", "i", "n", "i", "t", "y" >>)}
  \/ IF \E i \in 1..Len(body) : body[i] \in {69, 101}
     THEN /\ mantissa_ok(SubSeq(body, 1, Min({i \in 1..Len(body) : body[i] \in {69, 101}}) - 1))
          /\ exponent_ok(SubSeq(body, Min({i \in 1..Len(body) : body[i] \in {69, 101}}) + 1,
                                Len(body)))
     ELSE mantissa_ok(body)

\* str::parse::<f64>().is_ok()
parse_f64(s) ==
  IF s # << >> /\ s[1] \in {43, 45} THEN parse_f64_body(Tail(s)) ELSE parse_f64_body(s)

\* try_parse_float: "Handle both . and , as decimal separators"
try_parse_float(value) == parse_f64(replace_char(value, 44, 46))

\* What detect_value_type returns and leaves in bool_state.
value_type(type, had_string_bool) == [type |-> type, had_string_bool |-> had_string_bool]

\* detect_value_type from "Try boolean first" on.
detect_parsed(value, had_string_bool, boolean) ==
  IF boolean # None THEN value_type("Boolean", had_string_bool \/ boolean[1])
  ELSE IF try_parse_integer(value) THEN value_type("Integer", had_string_bool)
  ELSE IF try_parse_float(value) THEN value_type("Float", had_string_bool)
  ELSE IF guess_datetime_format(value, DateTimePatterns_new).matched
  THEN value_type("DateTime", had_string_bool)
  ELSE value_type("String", had_string_bool)

\* detect_value_type after let value = value.trim()
detect_trimmed(value, had_string_bool) ==
  IF value = << >> THEN value_type("String", had_string_bool)
  ELSE IF ~could_be_datetime(value) /\ is_string_value(value)
  THEN value_type("String", had_string_bool)
  ELSE detect_parsed(value, had_string_bool, try_parse_boolean(value))

\* detect_value_type(value, bool_state): the type and the updated had_string_bool.
detect_value_type(value, had_string_bool) == detect_trimmed(trim(value), had_string_bool)

downgrade_one_step(t, had_string_bool) ==
  CASE t = "Boolean" -> IF had_string_bool THEN "String" ELSE "Integer"
    [] t = "Integer" -> "Float"
    [] t = "Float" -> "DateTime"
    [] OTHER -> "String"

\* The while loop of downgrade_types: step down the chain from t until type2
\* or String is reached (at most four steps).
RECURSIVE downgrade_chain(_, _, _)
downgrade_chain(t, type2, had_string_bool) ==
  IF t = type2 \/ t = "String" THEN t
  ELSE downgrade_chain(downgrade_one_step(t, had_string_bool), type2, had_string_bool)

\* A variant of downgrade_types that takes the type of the latest value.
downgrade_types_latest(type1, type2, had_string_bool) == type2

downgrade_types(type1, type2, had_string_bool) ==
  IF type1 = type2 THEN type1
  ELSE IF {type1, type2} = {"Integer", "Float"} THEN "Float"
  ELSE IF {type1, type2} = {"Boolean", "Integer"} /\ ~had_string_bool THEN "Integer"
  ELSE IF "Boolean" \in {type1, type2} /\ had_string_bool THEN "String"
  ELSE downgrade_chain(type1, type2, had_string_bool)

\* The type detect_data_type sees in a value, with bool_state and datetime_patterns
\* as the value leaves them.
seen(type, had_string_bool, patterns) ==
  [type |-> type, had_string_bool |-> had_string_bool, patterns |-> patterns]

\* A variant of seen_type_of that starts from new patterns again when the
\* column's patterns do not match the value.
seen_type_of_rederived(acc, could, narrowed, fresh, vt) ==
  IF could /\ acc.patterns # None
  THEN IF narrowed.matched
       THEN seen("DateTime", acc.had_string_bool, Some(narrowed.patterns))
       ELSE seen(vt.type, vt.had_string_bool,
                 Some(IF fresh.matched THEN fresh.patterns ELSE narrowed.patterns))
  ELSE IF could /\ acc.current_type = Some("DateTime")
  THEN IF fresh.matched
       THEN seen("DateTime", acc.had_string_bool, Some(fresh.patterns))
       ELSE seen(vt.type, vt.had_string_bool, acc.patterns)
  ELSE seen(vt.type, vt.had_string_bool,
            IF vt.type = "DateTime" /\ fresh.matched THEN Some(fresh.patterns)
            ELSE acc.patterns)

\* let value_type = .. : narrowed is guess_datetime_format on the column's
\* patterns, fresh the one on new patterns, vt is detect_value_type; each is used
\* in the branches that call it.
seen_type_of(acc, could, narrowed, fresh, vt) ==
  IF could /\ acc.patterns # None
  THEN IF narrowed.matched
       THEN seen("DateTime", acc.had_string_bool, Some(narrowed.patterns))
       ELSE seen(vt.type, vt.had_string_bool, Some(narrowed.patterns))
  ELSE IF could /\ acc.current_type = Some("DateTime")
  THEN IF fresh.matched
       THEN seen("DateTime", acc.had_string_bool, Some(fresh.patterns))
       ELSE seen(vt.type, vt.had_string_bool, acc.patterns)
  ELSE seen(vt.type, vt.had_string_bool,
            IF vt.type = "DateTime" /\ fresh.matched THEN Some(fresh.patterns)
            ELSE acc.patterns)

seen_type(value, acc) ==
  seen_type_of(acc, could_be_datetime(value),
               guess_datetime_format(value, unwrap_or(acc.patterns, DateTimePatterns_new)),
               guess_datetime_format(value, DateTimePatterns_new),
               detect_value_type(value, acc.had_string_bool))

\* match current_type: "Type mismatch - apply downgrading rules"; done records the
\* early return of String.
merged(acc, s, new_type) ==
  [current_type |-> Some(new_type), had_string_bool |-> s.had_string_bool,
   patterns |-> s.patterns,
   done |-> acc.current_type[1] # s.type /\ new_type = "String"]

\* match current_type
merge_type(acc, s) ==
  IF acc.current_type = None
  THEN [current_type |-> Some(s.type), had_string_bool |-> s.had_string_bool,
        patterns |-> s.patterns, done |-> FALSE]
  ELSE merged(acc, s, downgrade_types(acc.current_type[1], s.type, s.had_string_bool))

\* The locals of detect_data_type before the loop.
scan_start == [current_type |-> None, had_string_bool |-> FALSE, patterns |-> None,
               done |-> FALSE]

\* One turn of the loop of detect_data_type, over values[i].
data_type_step(values, acc, i) ==
  IF acc.done \/ trim(values[i]) = << >> THEN acc
  ELSE merge_type(acc, seen_type(trim(values[i]), acc))

\* A variant of data_type_result that returns the patterns with every type.
data_type_result_patterns(last) ==
  [type |-> IF last.done THEN "String" ELSE unwrap_or(last.current_type, "String"),
   patterns |-> last.patterns]

\* What detect_data_type returns after the loop.
data_type_result(last) ==
  IF last.done THEN [type |-> "String", patterns |-> None]
  ELSE [type |-> unwrap_or(last.current_type, "String"),
        patterns |-> IF last.current_type = Some("DateTime") THEN last.patterns ELSE None]

\* detect_data_type(values, meta_type): the type and the surviving patterns.
detect_data_type(values, meta_type) ==
  LET step(acc, i) == data_type_step(values, acc, i)
  IN IF values = << >> THEN [type |-> unwrap_or(meta_type, "String"), patterns |-> None]
     ELSE data_type_result(Fold(step, scan_start, 1, Len(values)))

(***************************************************************************)
(* analyzer.rs, output.rs: responses and the helpers of analyze_internal   *)
(***************************************************************************)

\* The database steps of get_contact_properties can each fail: db_fail names the
\* step that fails in a run, or none.
DbFailures == {"connect_global", "pool_info", "connect_user_pool", "query"}

\* A variant of get_contact_properties that lets a database failure abort the
\* analysis.
get_contact_properties_fatal(fail, props) ==
  IF fail \in DbFailures THEN Err(DatabaseError) ELSE Ok(props)

\* CsvAnalyzer::get_contact_properties: every failing step gives Ok(Vec::new()).
get_contact_properties(fail, props) ==
  IF fail = "connect_global" THEN Ok(<< >>)
  ELSE IF fail = "pool_info" THEN Ok(<< >>)
  ELSE IF fail = "connect_user_pool" THEN Ok(<< >>)
  ELSE IF fail = "query" THEN Ok(<< >>)
  ELSE Ok(props)

\* format!("{:02X}", c as u8): two upper-case hexadecimal digits of the low byte.
hex_digit(d) == IF d < 10 THEN 48 + d ELSE 55 + d
hex_byte(c) == << hex_digit((c % 256) \div 16), hex_digit(c % 16) >>

\* set_field_separator, set_text_delimiter, with_field_separator,
\* with_text_delimiter: the empty string is kept for the NUL character.
hex_or_empty(c) == IF c # 0 THEN hex_byte(c) ELSE << >>

\* format!("{}", i) for a positive number.
RECURSIVE to_string(_)
to_string(n) == IF n < 10 THEN << 48 + n >> ELSE to_string(n \div 10) \o << 48 + (n % 10) >>

\* format!("Field{}", i)
field_name(i) == Str(<< "F", "i", "e", "l", "d" >>) \o to_string(i)

\* CsvAnalyzer::new
new_analyzer ==
  [text_sep |-> 0, field_delim |-> 0, skip_header |-> FALSE, charset |-> "UNKNOWN",
   current_row |-> 0, current_col |-> 0, current_field |-> << >>,
   current_data_type |-> "String", current_col_count |-> 0]

\* build_error_response: ErrorResponse::new and the with_ calls.
build_error_response(an, error) ==
  [kind |-> "Failure",
   error |-> CsvErrorCode(error_type(error)),
   error_row |-> an.current_row,
   error_column |-> an.current_col,
   error_field |-> an.current_field,
   error_data_type |-> DataTypeCode(an.current_data_type),
   error_column_count |-> an.current_col_count,
   skip_header |-> FALSE,
   charset |-> an.charset,
   field_separator |-> hex_or_empty(an.field_delim),
   text_delimiter |-> hex_or_empty(an.text_sep)]

\* "Build success response"
build_success_response(an, dt_format, hdrs, names, types, out) ==
  [kind |-> "Success",
   skip_header |-> an.skip_header,
   charset |-> an.charset,
   field_separator |-> hex_or_empty(an.field_delim),
   text_delimiter |-> hex_or_empty(an.text_sep),
   date_time_format |-> dt_format,
   header_names |-> hdrs,
   field_names |-> names,
   data_types |-> types,
   data |-> IF out = << >> THEN None ELSE Some(out)]

\* "Get headers"
get_headers(an, parsed) ==
  IF an.skip_header /\ parsed # << >> THEN parsed[1]
  ELSE [i \in 1..an.current_col_count |-> field_name(i)]

\* "Data rows (skip header if present)"
get_data_rows(an, parsed) ==
  IF an.skip_header /\ Len(parsed) > 1 THEN SubSeq(parsed, 2, Len(parsed)) ELSE parsed

\* "Validate headers": the loop sets current_col for every header it visits and
\* stops at the first header that is too long.
validate_headers(an, hdrs) ==
  LET long == {i \in 1..Len(hdrs) : ~is_valid_string_size(hdrs[i])}
  IN IF long = {}
     THEN Ok([an EXCEPT !.current_col = IF hdrs = << >> THEN @ ELSE Len(hdrs)])
     ELSE [ok |-> FALSE, err |-> CsvError("ColumnLong"),
           an |-> [an EXCEPT !.current_col = Min(long), !.current_field = hdrs[Min(long)]]]

\* "Get column values": the fields of column col of the rows that have one.
col_values(data, col) ==
  LET has(row) == col <= Len(row)
      with == SelectSeq(data, has)
  IN [r \in 1..Len(with) |-> with[r][col]]

\* "Track datetime format"
track_format(datetime_format, fmt) ==
  IF fmt # None /\ (datetime_format = None
                    \/ format_len(datetime_format[1]) < format_len(fmt[1]))
  THEN fmt ELSE datetime_format

\* A variant of column_entry that names the column after the matched property
\* whatever the detected type.
column_entry_named(acc, is_email, matched_prop, detected) ==
  [field_names |->
     Append(acc.field_names,
            IF is_email THEN EMAIL_NAME
            ELSE IF matched_prop # None THEN matched_prop[1].name
            ELSE << >>),
   data_types |-> Append(acc.data_types, detected.type),
   datetime_format |->
     track_format(acc.datetime_format,
                  IF detected.type = "DateTime" /\ detected.patterns # None
                  THEN format_string(detected.patterns[1]) ELSE None)]

\* One turn of the loop "Detect data types and match field names" once the
\* property is matched and the type detected.
column_entry(acc, is_email, matched_prop, detected) ==
  [field_names |->
     Append(acc.field_names,
            IF is_email THEN EMAIL_NAME
            ELSE IF matched_prop # None /\ detected.type = matched_prop[1].datatype
                 THEN matched_prop[1].name
            ELSE << >>),
   data_types |-> Append(acc.data_types, detected.type),
   datetime_format |->
     track_format(acc.datetime_format,
                  IF detected.type = "DateTime" /\ detected.patterns # None
                  THEN format_string(detected.patterns[1]) ELSE None)]

\* "Match property", "Detect data type"
column_matched(acc, is_email, matched_prop, values) ==
  column_entry(acc, is_email, matched_prop,
               detect_data_type(values, IF matched_prop = None THEN None
                                        ELSE Some(matched_prop[1].datatype)))

\* One turn of the loop for column col (1-based; email is the 1-based email column).
infer_column(acc, hdrs, data, props, email, col) ==
  column_matched(acc, col = email, match_property(hdrs[col], props), col_values(data, col))

infer_types(hdrs, data, props, email) ==
  LET step(acc, col) == infer_column(acc, hdrs, data, props, email, col)
  IN Fold(step, [field_names |-> << >>, data_types |-> << >>, datetime_format |-> None],
          1, Len(hdrs))

\* A variant of validate_fields that counts the rows from the first data row.
validate_fields_data_row(an, data) ==
  LET visited == IF Len(data) > MAX_RETURN_LINES THEN MAX_RETURN_LINES ELSE Len(data)
      long_rows == {r \in 1..visited : \E c \in 1..Len(data[r]) : ~is_valid_string_size(data[r][c])}
  IN IF long_rows = {}
     THEN [ok |-> TRUE, val |-> SubSeq(data, 1, visited), an |-> an]
     ELSE LET r == Min(long_rows)
              c == Min({k \in 1..Len(data[r]) : ~is_valid_string_size(data[r][k])})
          IN [ok |-> FALSE, err |-> CsvError("ValueLong"),
              an |-> [an EXCEPT !.current_row = r, !.current_col = c,
                                !.current_field = data[r][c]]]

\* "Validate field values and prepare data for output": the rows are visited until
\* MAX_RETURN_LINES are collected; the loops set current_row and current_col and
\* stop at the first field that is too long.
validate_fields(an, data) ==
  LET visited == IF Len(data) > MAX_RETURN_LINES THEN MAX_RETURN_LINES ELSE Len(data)
      row_no(r) == IF an.skip_header THEN r + 1 ELSE r
      long_rows == {r \in 1..visited : \E c \in 1..Len(data[r]) : ~is_valid_string_size(data[r][c])}
  IN IF long_rows = {}
     THEN [ok |-> TRUE, val |-> SubSeq(data, 1, visited),
           an |-> IF visited = 0 THEN an
                  ELSE [an EXCEPT !.current_row = row_no(visited),
                                  !.current_col = IF data[visited] = << >> THEN @
                                                  ELSE Len(data[visited])]]
     ELSE LET r == Min(long_rows)
              c == Min({k \in 1..Len(data[r]) : ~is_valid_string_size(data[r][k])})
          IN [ok |-> FALSE, err |-> CsvError("ValueLong"),
              an |-> [an EXCEPT !.current_row = row_no(r), !.current_col = c,
                                !.current_field = data[r][c]]]

(***************************************************************************)
(* The analysis as a state machine: one action per step of                 *)
(* CsvAnalyzer::analyze_internal, in the order of the code.                *)
(***************************************************************************)

VARIABLES
  file,            \* the bytes of the file config.filename names
  can_open,        \* whether File::open succeeds
  db_fail,         \* the database step that fails in this run, or none
  db_props,        \* the contact properties the database holds
  config,          \* self.config: return_lines
  pc,              \* the step analyze_internal is about to take
  self,            \* the CsvAnalyzer
  sample,          \* let sample
  lines,           \* let lines
  quote,           \* what detect_quote_char returned
  delimiter,       \* what detect_delimiter returned
  bucket_order,    \* the order in which bucket.iter() yielded the column counts
  rows,            \* let rows
  headers,         \* let headers
  data_rows,       \* let data_rows
  email_col,       \* what detect_email_column returned (1-based)
  properties,      \* let properties
  columns,         \* field_names, data_types and datetime_format
  output_data,     \* let output_data
  ran,             \* the steps this run has taken, in order
  outcome,         \* what analyze returned, once it has
  prev,            \* the previous run of the program on the same file, if any
  scan_values,     \* detect_data_type: values
  scan_meta,       \* detect_data_type: meta_type
  scan_at,         \* the number of values the loop of detect_data_type has visited
  scan_acc,        \* current_type, bool_state and datetime_patterns of the loop
  scan_out,        \* what detect_data_type returned, once it has
  scan_format      \* the datetime format the caller tracks for the column, once it has

env == << file, can_open, db_fail, db_props, config >>
scan == << scan_values, scan_meta, scan_at, scan_acc, scan_out, scan_format >>
locals == << sample, lines, quote, delimiter, bucket_order, rows, headers, data_rows,
             email_col, properties, columns, output_data >>
vars == << file, can_open, db_fail, db_props, pc, self, sample, lines, quote, delimiter,
           bucket_order, rows, headers, data_rows, email_col, properties, columns,
           output_data, ran, outcome, prev, config, scan_values, scan_meta, scan_at,
           scan_acc, scan_out, scan_format >>

\* The steps in the order analyze_internal takes them.
StageOrder ==
  << "ReadSample", "BinaryGuard", "DetectCharset", "Decode", "SniffQuote",
     "SniffDelimiter", "SniffHeader", "ValidateColumnCount", "CheckMaxColumns",
     "ParseRows", "ValidateHeaders", "CheckDuplicates", "DetectEmailColumn",
     "GetContactProperties", "InferTypes", "ValidateFieldSizes", "BuildResult" >>

\* Config::default: return_lines is MAX_RETURN_LINES.
default_config == [return_lines |-> MAX_RETURN_LINES]

\* No call of detect_data_type is followed step by step.
NoScan ==
  /\ scan_values = << >>
  /\ scan_meta = None
  /\ scan_at = 0
  /\ scan_acc = scan_start
  /\ scan_out = None
  /\ scan_format = None

\* The state of a process that has just constructed its CsvAnalyzer.
Start ==
  /\ pc = "ReadSample"
  /\ self = new_analyzer
  /\ sample = << >>
  /\ lines = << >>
  /\ quote = None
  /\ delimiter = None
  /\ bucket_order = << >>
  /\ rows = << >>
  /\ headers = << >>
  /\ data_rows = << >>
  /\ email_col = None
  /\ properties = << >>
  /\ columns = [field_names |-> << >>, data_types |-> << >>, datetime_format |-> None]
  /\ output_data = << >>
  /\ ran = << >>
  /\ outcome = None

\* analyze: Err(e) => self.build_error_response(e).to_json()
Fail(stage, an, error) ==
  /\ pc' = "Done"
  /\ self' = an
  /\ ran' = Append(ran, stage)
  /\ outcome' = Some(build_error_response(an, error))

\* The step succeeded; the analysis goes on with the step next.
Pass(stage, an, next) ==
  /\ pc' = next
  /\ self' = an
  /\ ran' = Append(ran, stage)
  /\ outcome' = outcome

\* let sample = self.read_sample()?
ReadSample ==
  /\ pc = "ReadSample"
  /\ LET r == read_sample(file, can_open)
     IN IF r.ok
        THEN Pass("ReadSample", self, "BinaryGuard") /\ sample' = r.val
        ELSE Fail("ReadSample", self, r.err) /\ sample' = sample
  /\ UNCHANGED << env, scan, prev, lines, quote, delimiter, bucket_order, rows, headers,
                  data_rows, email_col, properties, columns, output_data >>

\* if is_binary_data(&sample) { return Err(Binary) }
BinaryGuard ==
  /\ pc = "BinaryGuard"
  /\ IF is_binary_data(sample)
     THEN Fail("BinaryGuard", self, CsvError("Binary"))
     ELSE Pass("BinaryGuard", self, "DetectCharset")
  /\ UNCHANGED << env, scan, prev, locals >>

\* self.charset = detect_charset(&sample)
DetectCharset ==
  /\ pc = "DetectCharset"
  /\ Pass("DetectCharset", [self EXCEPT !.charset = detect_charset(sample)], "Decode")
  /\ UNCHANGED << env, scan, prev, locals >>

\* let text = convert_to_utf8(..)?; let lines = text.lines().take(..).collect();
\* if lines.is_empty() { return Err(Sample) }
Decode ==
  /\ pc = "Decode"
  /\ LET text == convert_to_utf8(sample, self.charset)
     IN IF ~text.ok
        THEN Fail("Decode", self, text.err) /\ lines' = lines
        ELSE IF sampled_lines(text.val) = << >>
        THEN Fail("Decode", self, CsvError("Sample")) /\ lines' = lines
        ELSE Pass("Decode", self, "SniffQuote") /\ lines' = sampled_lines(text.val)
  /\ UNCHANGED << env, scan, prev, sample, quote, delimiter, bucket_order, rows, headers,
                  data_rows, email_col, properties, columns, output_data >>

\* self.text_sep = detect_quote_char(&lines).unwrap_or(DOUBLE QUOTE)
SniffQuote ==
  /\ pc = "SniffQuote"
  /\ quote' = detect_quote_char(lines)
  /\ Pass("SniffQuote", [self EXCEPT !.text_sep = unwrap_or(quote', 34)], "SniffDelimiter")
  /\ UNCHANGED << env, scan, prev, sample, lines, delimiter, bucket_order, rows, headers,
                  data_rows, email_col, properties, columns, output_data >>

\* self.field_delim = detect_delimiter(&lines, Some(self.text_sep)).unwrap_or(NUL)
SniffDelimiter ==
  /\ pc = "SniffDelimiter"
  /\ delimiter' = detect_delimiter(lines, Some(self.text_sep))
  /\ Pass("SniffDelimiter", [self EXCEPT !.field_delim = unwrap_or(delimiter', 0)],
          "SniffHeader")
  /\ UNCHANGED << env, scan, prev, sample, lines, quote, bucket_order, rows, headers,
                  data_rows, email_col, properties, columns, output_data >>

\* self.skip_header = has_header(&lines, self.text_sep, self.field_delim)
SniffHeader ==
  /\ pc = "SniffHeader"
  /\ Pass("SniffHeader",
          [self EXCEPT !.skip_header = has_header(lines, self.text_sep, self.field_delim)],
          "ValidateColumnCount")
  /\ UNCHANGED << env, scan, prev, locals >>

\* let validation = validate_columns_count(..)?; self.current_col_count = ..
\* The HashMap of the column counts is iterated in an order the run does not fix.
ValidateColumnCount ==
  /\ pc = "ValidateColumnCount"
  /\ LET b == columns_bucket(lines, self.field_delim, self.text_sep)
         iterated == self.field_delim # 0 /\ ~b.failed
     IN \E order \in (IF iterated THEN IterationOrders(DOMAIN b.bucket) ELSE {<< >>}) :
          LET r == validate_columns_count(lines, self.field_delim, self.text_sep, order)
          IN /\ bucket_order' = order
             /\ IF r.ok
                THEN Pass("ValidateColumnCount", [self EXCEPT !.current_col_count = r.val],
                          "CheckMaxColumns")
                ELSE Fail("ValidateColumnCount", self, r.err)
  /\ UNCHANGED << env, scan, prev, sample, lines, quote, delimiter, rows, headers,
                  data_rows, email_col, properties, columns, output_data >>

\* if self.current_col_count > MAX_COLUMNS { return Err(TooMuchColumns) }
CheckMaxColumns ==
  /\ pc = "CheckMaxColumns"
  /\ IF self.current_col_count > MAX_COLUMNS
     THEN Fail("CheckMaxColumns", self, CsvError("TooMuchColumns"))
     ELSE Pass("CheckMaxColumns", self, "ParseRows")
  /\ UNCHANGED << env, scan, prev, locals >>

\* let rows = self.parse_csv(&lines)?; let headers = ..
ParseRows ==
  /\ pc = "ParseRows"
  /\ rows' = parse_csv(lines, self.field_delim, self.text_sep)
  /\ headers' = get_headers(self, rows')
  /\ Pass("ParseRows", self, "ValidateHeaders")
  /\ UNCHANGED << env, scan, prev, sample, lines, quote, delimiter, bucket_order,
                  data_rows, email_col, properties, columns, output_data >>

\* "Validate headers"
ValidateHeaders ==
  /\ pc = "ValidateHeaders"
  /\ LET r == validate_headers(self, headers)
     IN IF r.ok
        THEN Pass("ValidateHeaders", r.val, "CheckDuplicates")
        ELSE Fail("ValidateHeaders", r.an, r.err)
  /\ UNCHANGED << env, scan, prev, locals >>

\* check_duplicate_fields(&headers)?; let data_rows = ..
CheckDuplicates ==
  /\ pc = "CheckDuplicates"
  /\ LET r == check_duplicate_fields(headers)
     IN IF r.ok
        THEN Pass("CheckDuplicates", self, "DetectEmailColumn")
             /\ data_rows' = get_data_rows(self, rows)
        ELSE Fail("CheckDuplicates", self, r.err) /\ data_rows' = data_rows
  /\ UNCHANGED << env, scan, prev, sample, lines, quote, delimiter, bucket_order, rows,
                  headers, email_col, properties, columns, output_data >>

\* let email_col = detect_email_column(..).ok_or(EmailNotFound)?
DetectEmailColumn ==
  /\ pc = "DetectEmailColumn"
  /\ email_col' = detect_email_column(data_rows,
                                      IF self.skip_header THEN Some(headers) ELSE None,
                                      self.skip_header)
  /\ IF email_col' = None
     THEN Fail("DetectEmailColumn", self, CsvError("EmailNotFound"))
     ELSE Pass("DetectEmailColumn", self, "GetContactProperties")
  /\ UNCHANGED << env, scan, prev, sample, lines, quote, delimiter, bucket_order, rows,
                  headers, data_rows, properties, columns, output_data >>

\* let properties = self.get_contact_properties()?
GetContactProperties ==
  /\ pc = "GetContactProperties"
  /\ LET r == get_contact_properties(db_fail, db_props)
     IN IF r.ok
        THEN Pass("GetContactProperties", self, "InferTypes") /\ properties' = r.val
        ELSE Fail("GetContactProperties", self, r.err) /\ properties' = properties
  /\ UNCHANGED << env, scan, prev, sample, lines, quote, delimiter, bucket_order, rows,
                  headers, data_rows, email_col, columns, output_data >>

\* "Detect data types and match field names"
InferTypes ==
  /\ pc = "InferTypes"
  /\ columns' = infer_types(headers, data_rows, properties, email_col[1])
  /\ Pass("InferTypes",
          [self EXCEPT !.current_col = IF headers = << >> THEN @ ELSE Len(headers)],
          "ValidateFieldSizes")
  /\ UNCHANGED << env, scan, prev, sample, lines, quote, delimiter, bucket_order, rows,
                  headers, data_rows, email_col, properties, output_data >>

\* "Validate field values and prepare data for output"
ValidateFieldSizes ==
  /\ pc = "ValidateFieldSizes"
  /\ LET r == validate_fields(self, data_rows)
     IN IF r.ok
        THEN Pass("ValidateFieldSizes", r.an, "BuildResult") /\ output_data' = r.val
        ELSE Fail("ValidateFieldSizes", r.an, r.err) /\ output_data' = output_data
  /\ UNCHANGED << env, scan, prev, sample, lines, quote, delimiter, bucket_order, rows,
                  headers, data_rows, email_col, properties, columns >>

\* "Build success response"; analyze: Ok(response) => response.to_json()
BuildResult ==
  /\ pc = "BuildResult"
  /\ pc' = "Done"
  /\ ran' = Append(ran, "BuildResult")
  /\ outcome' = Some(build_success_response(self, columns.datetime_format, headers,
                                            columns.field_names, columns.data_types,
                                            output_data))
  /\ UNCHANGED << env, scan, prev, self, locals >>

\* The program is run again on the same file: a new process constructs a new
\* CsvAnalyzer.  The database behaves as in the previous run, or holds no
\* properties and answers.  prev keeps what the previous run saw and returned.
Rerun ==
  /\ pc = "Done"
  /\ prev = None
  /\ prev' = Some([db_fail |-> db_fail, db_props |-> db_props,
                   bucket_order |-> bucket_order, outcome |-> outcome[1]])
  /\ \E e \in {<< db_fail, db_props >>, << "none", << >> >>} :
       /\ db_fail' = e[1]
       /\ db_props' = e[2]
  /\ pc' = "ReadSample"
  /\ self' = new_analyzer
  /\ sample' = << >>
  /\ lines' = << >>
  /\ quote' = None
  /\ delimiter' = None
  /\ bucket_order' = << >>
  /\ rows' = << >>
  /\ headers' = << >>
  /\ data_rows' = << >>
  /\ email_col' = None
  /\ properties' = << >>
  /\ columns' = [field_names |-> << >>, data_types |-> << >>, datetime_format |-> None]
  /\ output_data' = << >>
  /\ ran' = << >>
  /\ outcome' = None
  /\ UNCHANGED << file, can_open, config, scan >>

(***************************************************************************)
(* Inputs                                                                  *)
(***************************************************************************)

\* n copies of the character c.
Rep(c, n) == [i \in 1..n |-> c]

\* The concatenation of the strings of ss, each followed by `after`.
Join(ss, after) ==
  LET add(acc, i) == acc \o ss[i] \o after
  IN Fold(add, << >>, 1, Len(ss))

\* The file whose lines are ls, each ended by a newline.
FileOf(ls) == Join(ls, << 10 >>)

\* The sequences over S of length 1..n.
SeqsUpTo(S, n) == UNION {[1..k -> S] : k \in 1..n}

\* The line with n fields x separated by commas.
Fields(n) == << 120 >> \o Join(Rep(<< 44, 120 >>, n - 1), << >>)

EMAIL_1 == Str(<< "a", "@", "b", ".", "c", "c" >>)
EMAIL_2 == Str(<< "c", "@", "d", ".", "e", "e" >>)

\* Lines of the files of the whole analysis: a header, a data row with an email,
\* a header with a duplicate name, a data row without an email, a single field.
AnalyzeLines ==
  { Str(<< "n", ",", "m" >>), EMAIL_1 \o Str(<< ",", "1" >>), Str(<< "n", ",", "n" >>),
    Str(<< "x", ",", "1" >>), Str(<< "x" >>) }

MaxLines == 2

\* Files that are no short text: without a newline, empty, binary, with byte order
\* marks, in a single-byte encoding, with malformed UTF-8, and with the long
\* names, long values and many columns the limits of types.rs are about.
SpecialFiles ==
  LET long == Rep(120, MAX_STRING_SIZE + 1)
      data == EMAIL_1 \o Str(<< ",", "1" >>)
  IN { << >>,
       << 0, 1, 2, 3, 4, 5 >>,
       EMAIL_1,
       << 0, 1, 2, 10 >>,
       << 1, 97, 97, 97, 97, 10 >>,
       << 9, 97, 97, 97, 97, 97, 10 >>,
       << 10 >> \o data \o << 10 >>,
       UTF8_BOM \o FileOf(<< Str(<< "n", ",", "m" >>), data >>),
       UTF8_BOM \o << 255, 255, 10 >>,
       UTF8_BOM \o << 97, 10, 195, 10 >>,
       UTF16_LE_BOM \o << 97, 0, 10, 0 >>,
       FileOf(<< << 110, 233, 44, 109 >>, data >>),
       FileOf(<< long \o Str(<< ",", "m" >>), data >>),
       FileOf(<< long \o << 44 >> \o long, Str(<< "x", ",", "1" >>) >>),
       FileOf(<< Str(<< "n", ",", "n" >>), EMAIL_1 \o << 44 >> \o long >>),
       FileOf(<< EMAIL_1 \o << 44 >> \o long >>),
       FileOf(<< EMAIL_1 \o Rep(44, MAX_COLUMNS) >>),
       FileOf(<< Str(<< "n", ",", "m" >>) \o Rep(44, MAX_COLUMNS), Str(<< "x", ",", "1" >>) >>),
       FileOf(Rep(data, 9) \o << data \o Str(<< ",", "2" >>) >>),
       FileOf(<< Str(<< "n", ",", "m" >>) >> \o Rep(data, 11)),
       FileOf(<< Str(<< "d", ",", "e", "m", "a", "i", "l" >>),
                 Str(<< "2", "0", "2", "0", "-", "0", "1", "-", "1", "5", "," >>) \o EMAIL_1 >>) }

AnalyzeFiles == {FileOf(ls) : ls \in SeqsUpTo(AnalyzeLines, MaxLines)} \cup SpecialFiles

\* The contact properties the database holds.
ContactProps ==
  << [name |-> Str(<< "M" >>), datatype |-> "Boolean"],
     [name |-> Str(<< "n" >>), datatype |-> "Integer"] >>

\* The database of a run: a step that fails or none, and the properties it holds.
DbEnvs == {<< f, ContactProps >> : f \in DbFailures \cup {"none"}} \cup {<< "none", << >> >>}

(***************************************************************************)
(* Specifications                                                          *)
(***************************************************************************)

Init ==
  /\ file \in AnalyzeFiles
  /\ can_open \in BOOLEAN
  /\ \E e \in DbEnvs : db_fail = e[1] /\ db_props = e[2]
  /\ config = default_config
  /\ prev = None
  /\ Start
  /\ NoScan

\* The steps up to the detection of the quote character.
NextQuote == ReadSample \/ BinaryGuard \/ DetectCharset \/ Decode \/ SniffQuote

\* ... of the field delimiter.
NextDelimiter == NextQuote \/ SniffDelimiter

\* ... up to the validation of the column counts.
NextColumns == NextDelimiter \/ SniffHeader \/ ValidateColumnCount

\* ... up to the detection of the email column.
NextEmail ==
  \/ NextColumns
  \/ CheckMaxColumns
  \/ ParseRows
  \/ ValidateHeaders
  \/ CheckDuplicates
  \/ DetectEmailColumn

Next ==
  \/ NextEmail
  \/ GetContactProperties
  \/ InferTypes
  \/ ValidateFieldSizes
  \/ BuildResult
  \/ Rerun

Spec == Init /\ [][Next]_vars

(***************************************************************************)
(* Files for the detection of the quote character                          *)
(***************************************************************************)

MaxQuoteLen == 2
MaxQuoteLines == 2

\* Lines made of the two candidates of TEXT_SEPS.
QuoteLines ==
  {<< >>} \cup UNION {[1..k -> {TEXT_SEPS[1], TEXT_SEPS[2]}] : k \in 1..MaxQuoteLen}

QuoteFiles == {FileOf(ls) : ls \in SeqsUpTo(QuoteLines, MaxQuoteLines)}

\* A run on a file that opens, with a database that holds nothing.
InitOn(files) ==
  /\ file \in files
  /\ can_open = TRUE
  /\ db_fail = "none"
  /\ db_props = << >>
  /\ config = default_config
  /\ prev = None
  /\ Start
  /\ NoScan

InitQuote == InitOn(QuoteFiles)

SpecQuote == InitQuote /\ [][NextQuote]_vars

(***************************************************************************)
(* Files for the detection of the field delimiter                          *)
(***************************************************************************)

\* What stands next to an email: nothing, or one of the delimiters but the space.
Flanks == {<< >>, << 11 >>, << 44 >>, << 59 >>, << 124 >>, << 9 >>}

\* A line with EMAIL_1 between the flanks l and r, with sp between them and it.
Flanked(l, sp, r) ==
  Str(<< "x", "x" >>) \o l \o sp \o EMAIL_1 \o sp \o r \o Str(<< "y", "y" >>)

EmailLines == {Flanked(l, sp, r) : l \in Flanks, sp \in {<< >>, << 32 >>}, r \in Flanks}

\* Lines with two emails: the first one decides, the second one is flanked by
\* other delimiters.
TwoEmailLines ==
  { EMAIL_1 \o << 59 >> \o EMAIL_2 \o Str(<< ",", "x" >>),
    Str(<< "x", "|" >>) \o EMAIL_1 \o << 59 >> \o EMAIL_2 \o Str(<< ",", "y" >>),
    Str(<< "x", "x" >>) \o EMAIL_1 \o Str(<< "y", " " >>) \o EMAIL_2 \o << 59 >> }

\* Lines without an email, for the detection by frequency.
FrequencyLines ==
  { Str(<< ";", ";", ";" >>), Str(<< "," >>), Str(<< "x" >>), Str(<< ";", "," >>),
    << 34, 44, 34, 59 >> }

MaxFrequencyLines == 3

DelimiterFiles ==
  {FileOf(<< e >>) : e \in EmailLines \cup TwoEmailLines}
    \cup {FileOf(<< Str(<< "x", ";", "y" >>), e >>) : e \in EmailLines}
    \cup {FileOf(ls) : ls \in SeqsUpTo(FrequencyLines, MaxFrequencyLines)}

InitDelimiter == InitOn(DelimiterFiles)

SpecDelimiter == InitDelimiter /\ [][NextDelimiter]_vars

(***************************************************************************)
(* Files for the validation of the column counts                           *)
(***************************************************************************)

MaxFields == 3
MaxColumnLines == 3

\* Lines of 1..MaxFields fields, and a line whose first field is quoted and
\* holds a comma.
ColumnLines ==
  {Fields(c) : c \in 1..MaxFields} \cup {<< 34, 120, 44, 120, 34, 44, 120 >>}

\* Files with many lines: a column count that 90% of the lines have among five
\* column counts or among two, one that 80% have, and lines of more than
\* MAX_COLUMNS columns.
ManyLineFiles ==
  { FileOf(Rep(Fields(2), 36) \o << Fields(3), Fields(4), Fields(5), Fields(6) >>),
    FileOf(Rep(Fields(2), 9) \o << Fields(3) >>),
    FileOf(<< Fields(3) >> \o Rep(Fields(2), 9)),
    FileOf(Rep(Fields(2), 8) \o << Fields(3), Fields(3) >>),
    FileOf(<< Fields(MAX_COLUMNS + 1) >>),
    FileOf(<< Fields(MAX_COLUMNS) >>),
    FileOf(Rep(Fields(MAX_COLUMNS + 1), 9) \o << Fields(2) >>) }

ColumnFiles ==
  {FileOf(ls) : ls \in SeqsUpTo(ColumnLines, MaxColumnLines)} \cup ManyLineFiles

InitColumns == InitOn(ColumnFiles)

SpecColumns == InitColumns /\ [][NextColumns]_vars

(***************************************************************************)
(* Files for the detection of the email column                             *)
(***************************************************************************)

MaxDataRows == 2

\* First lines that are headers, with and without a column named for the email.
EmailHeaderLines ==
  { Str(<< "e", "m", "a", "i", "l", ",", "x" >>),
    Str(<< "x", ",", "E", "-", "M", "a", "i", "l" >>),
    Str(<< "E", "m", "a", "i", "l", ",", "e", "-", "m", "a", "i", "l" >>),
    Str(<< "x", ",", "y" >>) }

\* Data rows with emails in both columns, in one, and in none.
EmailDataLines ==
  { EMAIL_1 \o << 44 >> \o EMAIL_2,
    EMAIL_1 \o Str(<< ",", "y" >>),
    Str(<< "y", "," >>) \o EMAIL_2,
    Str(<< "y", ",", "z" >>) }

EmailFiles ==
  {FileOf(<< h >> \o ds) :
     h \in EmailHeaderLines \cup EmailDataLines,
     ds \in {<< >>} \cup SeqsUpTo(EmailDataLines, MaxDataRows)}

InitEmail == InitOn(EmailFiles)

SpecEmail == InitEmail /\ [][NextEmail]_vars

(***************************************************************************)
(* Properties of the whole analysis                                        *)
(***************************************************************************)

\* Whether a step has been taken in the current run.
Ran(stage) == \E i \in 1..Len(ran) : ran[i] = stage

IsPrefix(s, t) == Len(s) <= Len(t) /\ \A i \in 1..Len(s) : s[i] = t[i]

HasDuplicateNames(hdrs) ==
  \E i, j \in 1..Len(hdrs) : i < j /\ to_lowercase(hdrs[i]) = to_lowercase(hdrs[j])

HasLongName(hdrs) == \E i \in 1..Len(hdrs) : str_len(hdrs[i]) > MAX_STRING_SIZE

HasLongField(data) ==
  \E r \in 1..Min({Len(data), MAX_RETURN_LINES}) :
    \E c \in 1..Len(data[r]) : str_len(data[r][c]) > MAX_STRING_SIZE

HasNoEmailColumn(an, hdrs, parsed) ==
  detect_email_column(get_data_rows(an, parsed),
                      IF an.skip_header THEN Some(hdrs) ELSE None, an.skip_header) = None

\* The checks in the order of the claim, from the column counts on: the step of the
\* first check the run's data violates and the error code of that check, or
\* BuildResult and -1 when the data passes every check.
FirstViolatedFrom(counted) ==
  IF ~counted.ok THEN << "ValidateColumnCount", CsvErrorCode(error_type(counted.err)) >>
  ELSE IF counted.val > MAX_COLUMNS THEN << "CheckMaxColumns", 5 >>
  ELSE IF HasLongName(headers) THEN << "ValidateHeaders", 6 >>
  ELSE IF HasDuplicateNames(headers) THEN << "CheckDuplicates", 8 >>
  ELSE IF HasNoEmailColumn(self, headers, rows) THEN << "DetectEmailColumn", 9 >>
  ELSE IF HasLongField(get_data_rows(self, rows)) THEN << "ValidateFieldSizes", 7 >>
  ELSE << "BuildResult", -1 >>

FirstViolatedDecoded(text) ==
  IF ~text.ok THEN << "Decode", CsvErrorCode(error_type(text.err)) >>
  ELSE FirstViolatedFrom(validate_columns_count(lines, self.field_delim, self.text_sep,
                                                bucket_order))

FirstViolatedRead(read) ==
  IF ~read.ok THEN << "ReadSample", CsvErrorCode(error_type(read.err)) >>
  ELSE IF is_binary_data(read.val) THEN << "BinaryGuard", 3 >>
  ELSE FirstViolatedDecoded(convert_to_utf8(read.val, detect_charset(read.val)))

FirstViolated == FirstViolatedRead(read_sample(file, can_open))

OutcomeIs(first) ==
  /\ ran[Len(ran)] = first[1]
  /\ IF first[2] = -1
     THEN outcome[1].kind = "Success"
     ELSE outcome[1].kind = "Failure" /\ outcome[1].error = first[2]

\* C1: the steps of a run are taken in the fixed order (sample read, binary guard,
\* charset detection and decoding, sniffing, column-count validation, max-columns
\* check, header-name length, duplicate header names, email column, type
\* inference, field-size validation); a finished run stopped at the first check
\* its input violates, reports that check's error code, and took no later step.
C1_FirstFailingCheckDecides ==
  /\ IsPrefix(ran, StageOrder)
  /\ pc = "Done" => OutcomeIs(FirstViolated)

\* C1 witness: a finished run on a file with duplicate header names and no email
\* column, reported as DuplicateField (8).
C1_DuplicateBeforeEmail ==
  /\ pc = "Done"
  /\ outcome[1].kind = "Failure"
  /\ outcome[1].error = 8
  /\ HasDuplicateNames(headers)
  /\ HasNoEmailColumn(self, headers, rows)
  /\ ~Ran("DetectEmailColumn")

\* The first line as the binary guard is described: up to the first newline, at
\* most 1024 bytes, without a leading byte order mark.
GuardedLine(data) ==
  LET newlines == {i \in 1..Len(data) : data[i] = 10}
      upto == Min({1024, IF newlines = {} THEN Len(data) ELSE Min(newlines) - 1})
      line == SubSeq(data, 1, upto)
  IN IF starts_with(line, UTF8_BOM) THEN SubSeq(line, 4, upto)
     ELSE IF starts_with(line, UTF16_LE_BOM) \/ starts_with(line, UTF16_BE_BOM)
          THEN SubSeq(line, 3, upto)
     ELSE line

UnprintableCount(line) ==
  Cardinality({i \in 1..Len(line) :
                 line[i] < 32 \/ line[i] = 255 \/ (line[i] >= 127 /\ line[i] <= 160)})

\* At least 20% of the bytes of the first line are unprintable.
LooksBinary(line) == line # << >> /\ UnprintableCount(line) * 100 >= 20 * Len(line)

NoCharsetOrTypeWork ==
  /\ ~Ran("DetectCharset")
  /\ ~Ran("Decode")
  /\ ~Ran("InferTypes")
  /\ pc = "Done" => outcome[1].kind = "Failure" /\ outcome[1].error = 3

FailedLookupAndEmptySet ==
  /\ prev # None
  /\ prev[1].db_fail \in DbFailures
  /\ db_fail = "none"
  /\ db_props = << >>

\* C3: no run ends with the Database error code (1), and a run in which a step of
\* the metadata lookup fails ends exactly as the run on the same file with an
\* empty property set.
C3_LookupFailureIsNotFatal ==
  /\ outcome # None => ~(outcome[1].kind = "Failure" /\ outcome[1].error = 1)
  /\ (pc = "Done" /\ FailedLookupAndEmptySet) => outcome[1] = prev[1].outcome

\* C3 witness: both runs succeeded, the lookup of the first one failed, and the
\* database of the first one held a property named like a header of the file.
C3_FailedLookupSucceeds ==
  /\ pc = "Done"
  /\ FailedLookupAndEmptySet
  /\ outcome[1].kind = "Success"
  /\ \E i \in 1..Len(headers) : match_property(headers[i], prev[1].db_props) # None

\* Both runs met the same database.
SameProperties == prev # None /\ prev[1].db_fail = db_fail /\ prev[1].db_props = db_props

\* C4: two runs on the same file with the same property set end in the same
\* outcome, whatever the order in which the column-count buckets were iterated.
C4_SameOutcome == (pc = "Done" /\ SameProperties) => outcome[1] = prev[1].outcome

\* C4 witness: two successful runs that iterated the buckets in different orders.
C4_OtherBucketOrder ==
  /\ pc = "Done"
  /\ SameProperties
  /\ bucket_order # prev[1].bucket_order
  /\ outcome[1].kind = "Success"

(***************************************************************************)
(* Properties of the detection of the quote character and the delimiter    *)
(***************************************************************************)

\* The step that was taken last in the current run.
JustRan(stage) == ran # << >> /\ ran[Len(ran)] = stage

Occurrences(c, line) == Cardinality({i \in 1..Len(line) : line[i] = c})

\* C5: a quote candidate (double or single quote) that occurs an odd number of
\* times in at least one sampled line, wherever that line is, is not what
\* detect_quote_char returns.
C5_OddCandidateNeverReturned ==
  Ran("SniffQuote") =>
    \A q \in {34, 39} :
      (\E n \in 1..Len(lines) : Occurrences(q, lines[n]) % 2 = 1) => quote # Some(q)

\* The fixed priority list of the delimiters: VT, comma, semicolon, bar, space, TAB.
PriorityList == << 11, 44, 59, 124, 32, 9 >>

PriorityOf(c) == CHOOSE k \in 1..Len(PriorityList) : PriorityList[k] = c

Earlier(a, b) == IF PriorityOf(a) < PriorityOf(b) THEN a ELSE b

\* The @ signs of a line that stand in a valid email.
EmailsIn(line) ==
  {at \in 1..Len(line) : line[at] = 64 /\ is_valid_email(potential_email(line, at))}

\* The first neighbour of the email that is not a space, when it is a delimiter.
LeftOf(line, at) == left_delim(line, local_start(line, at) - 1)
RightOf(line, at) == right_delim(line, domain_end(line, at) + 1)

Flanked2(l, r) == l # None /\ r # None /\ l[1] # r[1]

\* The emails of a line that have a delimiter as a neighbour.
DecidingIn(line) ==
  {at \in EmailsIn(line) : LeftOf(line, at) # None \/ RightOf(line, at) # None}

\* The lines that yield an email-anchored decision.
DecidingLines == {n \in 1..Len(lines) : DecidingIn(lines[n]) # {}}

ReturnsEarlier(l, r) == Flanked2(l, r) => delimiter = Some(Earlier(l[1], r[1]))

\* C6: when the first email with a delimiter as neighbour, in the first line that
\* yields an email-anchored decision, is flanked by two different delimiters,
\* detect_delimiter returns the one that is earlier in the priority list,
\* whichever side it is on.
C6_FirstEmailDecides ==
  (Ran("SniffDelimiter") /\ DecidingLines # {}) =>
    \A line \in {lines[Min(DecidingLines)]} :
      \A at \in {Min(DecidingIn(line))} :
        ReturnsEarlier(LeftOf(line, at), RightOf(line, at))

RightIsEarlier(l, r) ==
  Flanked2(l, r) /\ PriorityOf(r[1]) < PriorityOf(l[1]) /\ delimiter = r

LeftIsEarlier(l, r) ==
  Flanked2(l, r) /\ PriorityOf(l[1]) < PriorityOf(r[1]) /\ delimiter = l

\* C6 witness: the deciding email has the later delimiter on its left and the
\* earlier one, which is returned, on its right.
C6_EarlierOnTheRight ==
  /\ Ran("SniffDelimiter")
  /\ DecidingLines # {}
  /\ \E line \in {lines[Min(DecidingLines)]} :
       \E at \in {Min(DecidingIn(line))} :
         RightIsEarlier(LeftOf(line, at), RightOf(line, at))

\* C6 as stated: every valid email of the first deciding line that is flanked by
\* two different delimiters makes detect_delimiter return the earlier of its two.
C6_AnyFlankedEmail ==
  (Ran("SniffDelimiter") /\ DecidingLines # {}) =>
    \A line \in {lines[Min(DecidingLines)]} :
      \A at \in EmailsIn(line) :
        ReturnsEarlier(LeftOf(line, at), RightOf(line, at))

\* The count of a candidate outside quotes, in a line and over all lines.
OutOfQuote(k, n) == count_delimiters(PriorityList[k], lines[n], self.text_sep)

TotalOf(k) ==
  LET add(acc, n) == acc + OutOfQuote(k, n)
  IN Fold(add, 0, 1, Len(lines))

Covers(k) ==
  Cardinality({n \in 1..Len(lines) : OutOfQuote(k, n) > 0}) * 100 >= 50 * Len(lines)

Present == {k \in 1..Len(PriorityList) : TotalOf(k) > 0}

\* The candidates of a set with the highest total.
Highest(among) == {k \in among : \A j \in among : TotalOf(j) <= TotalOf(k)}

FrequencyFallback == Ran("SniffDelimiter") /\ DecidingLines = {}

\* C7: when no line yields an email-anchored decision, the candidate with the
\* highest total count outside quotes, the earliest in the priority list among
\* equals, is returned if it occurs in at least 50% of the lines; otherwise,
\* and when no candidate occurs at all, none is returned.
C7_HighestTotalNeedsCoverage ==
  FrequencyFallback =>
    IF Present = {} THEN delimiter = None
    ELSE \A top \in {Min(Highest(Present))} :
           delimiter = IF Covers(top) THEN Some(PriorityList[top]) ELSE None

\* C7 witness: the candidate with the highest total is in too few lines and none
\* is returned, although a candidate with a lower total is in enough lines.
C7_HighestBlocks ==
  /\ FrequencyFallback
  /\ Present # {}
  /\ ~Covers(Min(Highest(Present)))
  /\ \E k \in Present : Covers(k)
  /\ delimiter = None

\* C7 as stated: the candidate with the highest total among those in at least 50%
\* of the lines is returned, and none only if no candidate is in that many lines.
C7_HighestAmongCovering ==
  FrequencyFallback =>
    \A covering \in {{k \in Present : Covers(k)}} :
      IF covering = {} THEN delimiter = None
      ELSE \E k \in Highest(covering) : delimiter = Some(PriorityList[k])

(***************************************************************************)
(* Properties of the column counts and the email column                    *)
(***************************************************************************)

\* The run has just failed with the error code.
FailedWith(code) ==
  pc = "Done" /\ outcome[1].kind = "Failure" /\ outcome[1].error = code

\* The column count of a sampled line: its delimiters outside quotes, plus one.
ColumnsOf(n) == count_delimiters(self.field_delim, lines[n], self.text_sep) + 1

DistinctCounts == {ColumnsOf(n) : n \in 1..Len(lines)}

\* The column counts that at least 90% of the lines have.
Dominant ==
  {c \in DistinctCounts :
     Cardinality({n \in 1..Len(lines) : ColumnsOf(n) = c}) * 100 >= 90 * Len(lines)}

Counted == JustRan("ValidateColumnCount") /\ self.field_delim # 0

ColumnCountIs(c) == pc = "CheckMaxColumns" /\ self.current_col_count = c

\* C8: with a detected delimiter, more than 4 distinct column counts give
\* VariousFieldsCount (4) even when one count covers 90% of the lines; otherwise
\* the count that at least 90% of the lines have is the result when it is at
\* most MAX_COLUMNS and gives TooMuchColumns (5) when it is greater; no such
\* count gives VariousFieldsCount (4).
C8_DominantColumnCount ==
  Counted =>
    IF Cardinality(DistinctCounts) > 4 \/ Dominant = {} THEN FailedWith(4)
    ELSE \A c \in Dominant : IF c > MAX_COLUMNS THEN FailedWith(5) ELSE ColumnCountIs(c)

\* C8 witness: five distinct column counts, one of them in 90% of the lines, and
\* the failure VariousFieldsCount.
C8_ManyCountsWithDominant ==
  /\ Counted
  /\ Cardinality(DistinctCounts) > 4
  /\ Dominant # {}
  /\ FailedWith(4)

\* C8 as stated: with at most 4 distinct counts, the count that at least 90% of
\* the lines have is the result, whatever its size.
C8_DominantWhateverSize ==
  Counted =>
    IF Cardinality(DistinctCounts) > 4 \/ Dominant = {} THEN FailedWith(4)
    ELSE \A c \in Dominant : ColumnCountIs(c)

\* The headers named email or e-mail, ignoring case.
NamedForEmail(hdrs) ==
  {i \in 1..Len(hdrs) : to_lowercase(hdrs[i]) \in {EMAIL_NAME, E_MAIL_NAME}}

\* The number of data rows whose field in the column is a valid email.
Tally(col) ==
  Cardinality({r \in 1..Len(data_rows) :
                 col <= Len(data_rows[r]) /\ is_valid_email(data_rows[r][col])})

TallyColumns == 1..Len(data_rows[1])

HeaderNamesEmail == self.skip_header /\ NamedForEmail(headers) # {}

TopColumns == {c \in TallyColumns : \A o \in TallyColumns : Tally(o) <= Tally(c)}

Tallied == JustRan("DetectEmailColumn") /\ ~HeaderNamesEmail

analysis == << env, prev, pc, self, locals, ran, outcome >>

\* for value in values: one turn of the loop; an empty value is skipped.
ScanValue ==
  /\ scan_out = None
  /\ scan_at < Len(scan_values)
  /\ ~scan_acc.done
  /\ scan_at' = scan_at + 1
  /\ scan_acc' = data_type_step(scan_values, scan_acc, scan_at + 1)
  /\ UNCHANGED << analysis, scan_values, scan_meta, scan_out, scan_format >>

\* The returns of detect_data_type: for no values, for a downgrade to String,
\* and after the loop.
ScanReturn ==
  /\ scan_out = None
  /\ scan_at = Len(scan_values) \/ scan_acc.done
  /\ scan_out' = Some(IF scan_values = << >>
                      THEN [type |-> unwrap_or(scan_meta, "String"), patterns |-> None]
                      ELSE data_type_result(scan_acc))
  /\ UNCHANGED << analysis, scan_values, scan_meta, scan_at, scan_acc, scan_format >>

\* "Track datetime format" in the caller, for the first column: the format of the
\* patterns returned for a DateTime column, if they have one.
ScanFormat ==
  /\ scan_out # None
  /\ scan_format = None
  /\ scan_format' =
       Some(track_format(None, IF scan_out[1].type = "DateTime" /\ scan_out[1].patterns # None
                               THEN format_string(scan_out[1].patterns[1]) ELSE None))
  /\ UNCHANGED << analysis, scan_values, scan_meta, scan_at, scan_acc, scan_out >>

DATE_YMD == Str(<< "2", "0", "2", "0", "-", "0", "1", "-", "1", "5" >>)
DATE_DMY == Str(<< "1", "5", "/", "0", "1", "/", "2", "0", "2", "0" >>)
DATE_AMBIGUOUS == Str(<< "0", "1", "/", "0", "2", "/", "2", "0", "2", "0" >>)
DATE_WITH_TIME ==
  Str(<< "0", "3", "/", "0", "4", "/", "2", "0", "2", "0", " ", "1", "0", ":", "3", "0" >>)

\* The values of the columns: numeric booleans, an integer, floats, string-form
\* booleans, dates in several formats, a text and the empty value.
ScanTexts ==
  { Str(<< "1" >>), Str(<< "2" >>), Str(<< "3", ".", "5" >>), Str(<< "t", "r", "u", "e" >>),
    Str(<< "F", "a", "l", "s", "e" >>), DATE_YMD, DATE_DMY, DATE_AMBIGUOUS, DATE_WITH_TIME,
    Str(<< "a", "b" >>), << >> }

MaxScanLen == 3

ScanColumns == {<< >>} \cup SeqsUpTo(ScanTexts, MaxScanLen)

\* detect_data_type is called on a column, with or without a property's type.
InitScan ==
  /\ file = << >>
  /\ can_open = TRUE
  /\ db_fail = "none"
  /\ db_props = << >>
  /\ config = default_config
  /\ prev = None
  /\ Start
  /\ scan_values \in ScanColumns
  /\ scan_meta \in {None, Some("Integer")}
  /\ scan_at = 0
  /\ scan_acc = scan_start
  /\ scan_out = None
  /\ scan_format = None

NextScan == ScanValue \/ ScanReturn \/ ScanFormat

SpecScan == InitScan /\ [][NextScan]_vars

\* The returned value is that of the function.
ScanReturnsDetected ==
  scan_out # None => scan_out[1] = detect_data_type(scan_values, scan_meta)

(***************************************************************************)
(* Properties of the type of a column                                      *)
(***************************************************************************)

\* The place of a type in the order Boolean, Integer, Float, DateTime, String.
TypeRank(t) ==
  CASE t = "Boolean" -> 1
    [] t = "Integer" -> 2
    [] t = "Float" -> 3
    [] t = "DateTime" -> 4
    [] t = "String" -> 5

\* The type of a value on its own.
TypeOfValue(v) == detect_value_type(v, FALSE).type

NeverBackward ==
  scan_acc.current_type # None =>
    /\ scan_acc'.current_type # None
    /\ TypeRank(scan_acc'.current_type[1]) >= TypeRank(scan_acc.current_type[1])

\* C11: in every turn of the loop of detect_data_type the running type of the
\* column stays the same or moves forward in the order Boolean, Integer, Float,
\* DateTime, String; it never moves to an earlier type.
C11_TypeNeverMovesBack == [][NeverBackward]_vars

\* C11 witness: after a float, a value of the earlier type Integer has been
\* visited and the running type is still Float.
C11_EarlierTypeArrives ==
  /\ scan_at = 2
  /\ TypeOfValue(scan_values[1]) = "Float"
  /\ TypeOfValue(scan_values[2]) = "Integer"
  /\ scan_acc.current_type = Some("Float")

\* The values of the column that are not empty.
NonEmpty == {i \in 1..Len(scan_values) : trim(scan_values[i]) # << >>}

IsNumericBoolean(v) == trim(v) \in {<< 48 >>, << 49 >>}

IsStringBoolean(v) == to_lowercase(trim(v)) \in {TRUE_STR, FALSE_STR}

IsInteger(v) == try_parse_integer(trim(v))

\* Booleans and integers only, with an integer other than 0 and 1.
BooleansAndIntegers ==
  /\ \A i \in NonEmpty : IsStringBoolean(scan_values[i]) \/ IsInteger(scan_values[i])
  /\ \E i \in NonEmpty : IsInteger(scan_values[i]) /\ ~IsNumericBoolean(scan_values[i])

\* C12: a column of booleans and integers with an integer other than 0 and 1, in
\* any order, is Integer when its booleans are all 0 or 1, and String when one
\* of them is in the string form true or false.
C12_BooleansWithIntegers ==
  (scan_out # None /\ BooleansAndIntegers) =>
    scan_out[1].type = IF \E i \in NonEmpty : IsStringBoolean(scan_values[i])
                       THEN "String" ELSE "Integer"

\* C12 witness: 0 or 1, then an integer, then a string-form boolean, and String.
C12_StringBooleanAfterInteger ==
  /\ scan_out # None
  /\ BooleansAndIntegers
  /\ Len(scan_values) = 3
  /\ IsNumericBoolean(scan_values[1])
  /\ ~IsNumericBoolean(scan_values[2])
  /\ IsStringBoolean(scan_values[3])
  /\ scan_out[1].type = "String"

IsFloat(v) == try_parse_float(trim(v))

\* Integers and floats only, with a float that is not an integer.
IntegersAndFloats ==
  /\ \A i \in NonEmpty : IsInteger(scan_values[i]) \/ IsFloat(scan_values[i])
  /\ \E i \in NonEmpty : IsFloat(scan_values[i]) /\ ~IsInteger(scan_values[i])

\* C13: a column of integers and floats (0 and 1 included) with a float that is
\* not an integer is Float in every order of its values.
C13_FloatInEveryOrder ==
  (scan_out # None /\ IntegersAndFloats) => scan_out[1].type = "Float"

\* C14: a column returned as DateTime comes with a pattern set that has a
\* surviving date candidate.
C14_DateTimeHasDateCandidate ==
  (scan_out # None /\ scan_out[1].type = "DateTime") =>
    /\ scan_out[1].patterns # None
    /\ scan_out[1].patterns[1].date_patterns # << >>

\* a is b with some of its elements left out, the others in their order.
RECURSIVE IsSubsequence(_, _)
IsSubsequence(a, b) ==
  IF a = << >> THEN TRUE
  ELSE IF b = << >> THEN FALSE
  ELSE IF Head(a) = Head(b) THEN IsSubsequence(Tail(a), Tail(b))
  ELSE IsSubsequence(a, Tail(b))

Shrunk(before, after) ==
  /\ IsSubsequence(after.date_patterns, before.date_patterns)
  /\ IsSubsequence(after.time_patterns, before.time_patterns)

\* Once the column has patterns, a step leaves it with patterns that are
\* sub-sequences of them.
OnlyShrinks ==
  scan_acc.patterns # None =>
    /\ scan_acc'.patterns # None
    /\ Shrunk(scan_acc.patterns[1], scan_acc'.patterns[1])

\* C15: over a column scan the column's patterns only shrink: after each value the
\* date candidates and the time candidates are sub-sequences of what they were
\* before it; nothing is added again and the patterns are not created anew.
C15_PatternsOnlyShrink == [][OnlyShrinks]_vars

\* C15 witness: patterns created by an ambiguous date have lost candidates, but
\* not all of them, to the second date of the column.
C15_SecondDateNarrows ==
  /\ scan_at = 2
  /\ scan_values[1] = DATE_AMBIGUOUS
  /\ scan_values[2] = DATE_DMY
  /\ scan_acc.patterns # None
  /\ scan_acc.patterns[1].date_patterns # << >>
  /\ Len(scan_acc.patterns[1].date_patterns)
       < Len(guess_datetime_format(DATE_AMBIGUOUS, DateTimePatterns_new).patterns.date_patterns)

(***************************************************************************)
(* Files for the validation of the lengths                                 *)
(***************************************************************************)

\* One run of the analysis, from the sample to the response.
NextRun ==
  \/ NextEmail
  \/ GetContactProperties
  \/ InferTypes
  \/ ValidateFieldSizes
  \/ BuildResult

\* The bytes of the character c in UTF-8 (up to three bytes).
Utf8(c) ==
  IF c < 128 THEN << c >>
  ELSE IF c < 2048 THEN << 192 + (c \div 64), 128 + (c % 64) >>
  ELSE << 224 + (c \div 4096), 128 + ((c \div 64) % 64), 128 + (c % 64) >>

\* The bytes of n characters c.
Wide(c, n) == Join(Rep(Utf8(c), n), << >>)

\* Characters of one byte and of two bytes in UTF-8: x and e with an acute accent.
LengthChars == {120, 233}

\* Lengths around MAX_STRING_SIZE characters and around MAX_STRING_SIZE bytes of
\* two-byte characters.
Lengths ==
  {MAX_STRING_SIZE \div 2, MAX_STRING_SIZE \div 2 + 1, MAX_STRING_SIZE, MAX_STRING_SIZE + 1}

\* A long header name, a long value under a header, a long value without a header,
\* and a long value in the first column of the second row under a header.
LengthFilesOf(long) ==
  { FileOf(<< long \o Str(<< ",", "m" >>), EMAIL_1 \o Str(<< ",", "1" >>) >>),
    FileOf(<< Str(<< "n", ",", "m" >>), EMAIL_1 \o << 44 >> \o long >>),
    FileOf(<< EMAIL_1 \o << 44 >> \o long >>),
    FileOf(<< Str(<< "n", ",", "m" >>), EMAIL_1 \o Str(<< ",", "1" >>),
              long \o << 44 >> \o EMAIL_1 >>) }

LengthFiles == UNION {LengthFilesOf(Wide(c, n)) : c \in LengthChars, n \in Lengths}

InitLength == InitOn(LengthFiles)

SpecLength == InitLength /\ [][NextRun]_vars

\* A name of more than MAX_STRING_SIZE characters.
LongName == \E i \in 1..Len(headers) : Len(headers[i]) > MAX_STRING_SIZE

\* A value of more than MAX_STRING_SIZE characters in a row that is validated.
LongValue ==
  \E r \in 1..Min({Len(data_rows), MAX_RETURN_LINES}) :
    \E c \in 1..Len(data_rows[r]) : Len(data_rows[r][c]) > MAX_STRING_SIZE

\* C16: the lengths are counted in characters: the validation of the header names
\* fails, with ColumnNameTooLong (6), exactly when a name has more than 1000
\* characters, and the validation of the values fails, with ValueTooLong (7),
\* exactly when a value has more than 1000 characters, whatever the width of the
\* characters in bytes.
C16_LengthCountsCharacters ==
  /\ JustRan("ValidateHeaders") => (FailedWith(6) <=> LongName)
  /\ JustRan("ValidateFieldSizes") => (FailedWith(7) <=> LongValue)

(***************************************************************************)
(* Files, configurations and databases for the response                    *)
(***************************************************************************)

ResultHeaders ==
  { Str(<< "e", "m", "a", "i", "l", ",", "m" >>), Str(<< "e", "m", "a", "i", "l", ",", "n" >>),
    Str(<< "n", ",", "m" >>), Str(<< "e", "m", "a", "i", "l", ",", "x" >>) }

\* Data rows whose second field is a boolean, an integer and a string.
ResultRows ==
  { EMAIL_1 \o Str(<< ",", "1" >>), EMAIL_1 \o Str(<< ",", "2" >>),
    EMAIL_1 \o Str(<< ",", "a", "b" >>) }

\* Numbers of data rows around the configured and the default number of
\* returned rows.
RowCounts == {5, 6, MAX_RETURN_LINES, MAX_RETURN_LINES + 1}

\* A file with every field in quotes q.
QuotedFile(q) ==
  FileOf(Rep(<< q >> \o EMAIL_1 \o << q, 44, q, 49, q >>, 2))

\* Files with a header and a data row, with a data row only, with many data
\* rows, with quoted fields, and with a header of one more name than the data
\* rows have fields.
ResultFiles ==
  {FileOf(<< h, r >>) : h \in ResultHeaders, r \in ResultRows}
    \cup {FileOf(<< r >>) : r \in ResultRows}
    \cup {FileOf(<< Str(<< "e", "m", "a", "i", "l", ",", "m" >>) >>
                   \o Rep(EMAIL_1 \o Str(<< ",", "1" >>), k)) : k \in RowCounts}
    \cup {QuotedFile(34), QuotedFile(39)}
    \cup {FileOf(<< Str(<< "e", "m", "a", "i", "l", ",", "m", ",", "n" >>) >>
                   \o Rep(EMAIL_1 \o Str(<< ",", "1" >>), 9))}
    \cup {FileOf(<< Str(<< "e", "m", "a", "i", "l", ",", "m" >>) >>)}

\* Config after main: --return-lines 5, or the default.
Configs == {[return_lines |-> n] : n \in {5, MAX_RETURN_LINES}}

InitResult ==
  /\ file \in ResultFiles
  /\ can_open = TRUE
  /\ db_fail = "none"
  /\ db_props \in {ContactProps, << >>}
  /\ config \in Configs
  /\ prev = None
  /\ Start
  /\ NoScan

SpecResult == InitResult /\ [][NextRun]_vars

Succeeded == pc = "Done" /\ outcome[1].kind = "Success"

\* C17: the data of a success response has at most Config.return_lines rows.
C17_AtMostReturnLines ==
  (Succeeded /\ outcome[1].data # None) => Len(outcome[1].data[1]) <= config.return_lines

\* C19: when the detection of the quote character selects none, the text
\* delimiter of the response is the empty string.
C19_NoQuoteNoTextDelimiter ==
  (Succeeded /\ quote = None) => outcome[1].text_delimiter = << >>

\* The first property whose name is the header ignoring case, if there is one.
Matching(header) ==
  {i \in 1..Len(properties) : to_lowercase(properties[i].name) = to_lowercase(header)}

\* The fields of column col in the data rows that have one.
ValuesOf(col) ==
  LET with == {r \in 1..Len(data_rows) : col <= Len(data_rows[r])}
      nth(k) == CHOOSE r \in with : Cardinality({q \in with : q <= r}) = k
  IN [k \in 1..Cardinality(with) |-> data_rows[nth(k)][col]]

\* The name the column has in the response, given the properties that match.
NamedAfterProperty(col, hits) ==
  columns.field_names[col] =
    IF hits # {} /\ columns.data_types[col] = properties[Min(hits)].datatype
    THEN properties[Min(hits)].name
    ELSE << >>

\* The type of a column with values is the type of its values alone.
TypeOfValuesAlone(col, values) ==
  values # << >> => columns.data_types[col] = detect_data_type(values, None).type

\* C20: a column other than the email column is named after the property that
\* matches its header (ignoring case) exactly when its inferred type is the
\* type of that property, and has the empty name otherwise; the type of a
\* column with at least one value does not depend on the property; the email
\* column is named email.
C20_NameNeedsEqualType ==
  Ran("InferTypes") =>
    \A col \in 1..Len(headers) :
      IF col = email_col[1]
      THEN columns.field_names[col] = Str(<< "e", "m", "a", "i", "l" >>)
      ELSE /\ NamedAfterProperty(col, Matching(headers[col]))
           /\ TypeOfValuesAlone(col, ValuesOf(col))

\* C20 witness: a column whose header matches a property of another type than
\* the column's values have; it keeps the type of its values and has no name.
C20_MismatchBlanksName ==
  /\ Ran("InferTypes")
  /\ \E col \in 1..Len(headers) :
       /\ col # email_col[1]
       /\ Matching(headers[col]) # {}
       /\ ValuesOf(col) # << >>
       /\ columns.data_types[col] = "Integer"
       /\ \A i \in Matching(headers[col]) : properties[i].datatype = "Boolean"
       /\ columns.field_names[col] = << >>

(***************************************************************************)
(* Files for the reading of the sample                                     *)
(***************************************************************************)

MaxSampleLen == 5

\* Short files of newlines and letters, and files at the limits of the sample:
\* more than MAX_BYTES bytes without a newline, with the first newline right
\* after MAX_BYTES bytes, with MAX_BYTES bytes ending in a newline, with more
\* than MAX_SCAN_LINES + 1 newlines, and with lines that reach MAX_BYTES first.
SampleFiles ==
  {<< >>} \cup SeqsUpTo({10, 97}, MaxSampleLen)
    \cup { Rep(97, MAX_BYTES + 1),
           Rep(97, MAX_BYTES) \o << 10 >>,
           Rep(97, MAX_BYTES - 1) \o << 10, 97, 10 >>,
           Rep(10, MAX_SCAN_LINES + 2),
           << 97 >> \o Rep(10, MAX_SCAN_LINES + 1) \o << 97, 10 >>,
           FileOf(Rep(Rep(97, 99), MAX_SCAN_LINES)) }

InitSample ==
  /\ file \in SampleFiles
  /\ can_open \in BOOLEAN
  /\ db_fail = "none"
  /\ db_props = << >>
  /\ config = default_config
  /\ prev = None
  /\ Start
  /\ NoScan

NextSample == ReadSample

SpecSample == InitSample /\ [][NextSample]_vars

Newlines(bytes) == Cardinality({i \in 1..Len(bytes) : bytes[i] = 10})

\* No newline is read: the file has none among its first MAX_BYTES bytes (none at
\* all when it is empty).
NoNewlineRead == \A i \in 1..Min({Len(file), MAX_BYTES}) : file[i] # 10

\* C18: read_sample on a file that opens fails, with Sample (2), exactly when the
\* bytes read are none or hold no newline; otherwise it returns a prefix of the
\* file of at most 51200 bytes with at most 1001 newlines.
C18_SampleNeedsNewline ==
  (JustRan("ReadSample") /\ can_open) =>
    IF NoNewlineRead
    THEN FailedWith(2)
    ELSE /\ outcome = None
         /\ IsPrefix(sample, file)
         /\ Len(sample) <= 51200
         /\ Newlines(sample) <= 1001

\* C18 witness: a file of one line without a newline is refused.
C18_SingleLineWithoutNewline ==
  /\ JustRan("ReadSample")
  /\ can_open
  /\ file # << >>
  /\ Newlines(file) = 0
  /\ FailedWith(2)

(***************************************************************************)
(* Files for the header detection and the parsing of the lines             *)
(***************************************************************************)

\* Lines with quoted delimiters, white space around fields, an open quote, single
\* quotes, nothing but delimiters, quotes or white space, and emails next to
\* characters that are not part of an address.
ParseLines ==
  { Str(<< "n", ",", "m" >>),
    EMAIL_1 \o Str(<< ",", "1" >>),
    << 34, 32, 120, 44, 121, 34, 32, 44, 122 >>,
    << 32, 120, 32, 44, 32, 34, 121, 34, 32 >>,
    Str(<< ",", "," >>),
    Str(<< "x" >>),
    EMAIL_1 \o Str(<< ".", ",", "x" >>),
    << 120, 34, 121, 44, 122 >>,
    << 39, 120, 39, 44, 34, 121, 34 >>,
    << 34, 32, 34, 44, 34, 34 >>,
    EMAIL_1 \o Str(<< "_", "x", ";", "y" >>),
    << 32, 32 >> }

MaxParseLines == 2

ParseFiles == {FileOf(ls) : ls \in SeqsUpTo(ParseLines, MaxParseLines)}

InitParse == InitOn(ParseFiles)

SpecParse == InitParse /\ [][NextEmail]_vars

\* The delimiters of the line that are outside quotes: those with an even number
\* of quote characters before them.
Cuts(line, d, q) ==
  {i \in 1..Len(line) :
     line[i] = d /\ Cardinality({j \in 1..(i - 1) : line[j] = q}) % 2 = 0}

\* The characters lo..hi of the line without the quote characters, trimmed.
Piece(line, lo, hi, q) ==
  LET keep(c) == c # q
  IN trim(SelectSeq(SubSeq(line, lo, hi), keep))

\* The pieces between the sorted positions at, the first from the start of the
\* line and the last to its end.
PiecesBetween(line, at, q) ==
  [k \in 1..(Len(at) + 1) |->
     Piece(line, IF k = 1 THEN 1 ELSE at[k - 1] + 1,
                 IF k = Len(at) + 1 THEN Len(line) ELSE at[k] - 1, q)]

\* The elements of a set of numbers in increasing order.
Sorted(S) ==
  [k \in 1..Cardinality(S) |-> CHOOSE x \in S : Cardinality({y \in S : y <= x}) = k]

SplitOutsideQuotes(line, d, q) == PiecesBetween(line, Sorted(Cuts(line, d, q)), q)

\* C21: with a detected delimiter the fields of a line are the pieces between its
\* delimiters outside quotes, without the quote characters and trimmed; without
\* a delimiter the line is one field.
C21_SplitOutsideQuotes ==
  Ran("ParseRows") =>
    \A n \in 1..Len(lines) :
      rows[n] = IF self.field_delim = 0 THEN << lines[n] >>
                ELSE SplitOutsideQuotes(lines[n], self.field_delim, self.text_sep)

\* C21 witness: a line with a delimiter inside quotes and one outside, whose
\* first field keeps the quoted delimiter and has lost the quotes and the space
\* next to them.
C21_QuotedDelimiterKept ==
  /\ Ran("ParseRows")
  /\ self.field_delim = 44
  /\ \E n \in 1..Len(lines) :
       /\ Cardinality(Cuts(lines[n], 44, self.text_sep)) = 1
       /\ Occurrences(44, lines[n]) = 2
       /\ Occurrences(32, lines[n]) = 2
       /\ rows[n] = << Str(<< "x", ",", "y" >>), Str(<< "z" >>) >>

\* The characters an address is made of, before and after the @ sign.
IsLocalChar(c) == IsAsciiAlpha(c) \/ IsAsciiDigit(c) \/ c \in {46, 95, 45, 43}
IsDomainChar(c) == IsAsciiAlpha(c) \/ IsAsciiDigit(c) \/ c \in {46, 45}

\* The address around the @ sign at position at: the address characters that
\* stand right before it and right after it.
AddressFrom(line, at) ==
  Min({i \in 1..at : \A j \in i..(at - 1) : IsLocalChar(line[j])})
AddressTo(line, at) ==
  Max({i \in at..Len(line) : \A j \in (at + 1)..i : IsDomainChar(line[j])})

IsAddress(line, at, lo, hi) ==
  lo < at /\ at < hi /\ is_valid_email(to_lowercase(SubSeq(line, lo, hi)))

ContainsAddress(line) ==
  \E at \in 1..Len(line) :
    line[at] = 64 /\ IsAddress(line, at, AddressFrom(line, at), AddressTo(line, at))

\* Nothing but white space is left of the line without delimiters and quotes.
BlankWithout(line, d, q) ==
  LET keep(c) == c # d /\ c # q
  IN trim(SelectSeq(line, keep)) = << >>

\* C22: on a sample with lines has_header answers false exactly when the first
\* line contains a valid email address or is empty or white space once its
\* delimiters and quote characters are removed.
C22_HeaderUnlessEmailOrBlank ==
  Ran("SniffHeader") =>
    (~self.skip_header <=>
       \/ ContainsAddress(lines[1])
       \/ BlankWithout(lines[1], self.field_delim, self.text_sep))

\* C22 witness: a first line of delimiters only is no header.
C22_DelimitersOnlyIsData ==
  /\ Ran("SniffHeader")
  /\ ~self.skip_header
  /\ self.field_delim # 0
  /\ lines[1] # << >>
  /\ \A i \in 1..Len(lines[1]) : lines[1][i] = self.field_delim

(***************************************************************************)
(* Files for the detection of the charset                                  *)
(***************************************************************************)

MaxCharsetLen == 2

\* What a file starts with: nothing, a byte order mark, or the first two bytes
\* of the UTF-8 one.
CharsetStarts == {<< >>, UTF8_BOM, UTF16_LE_BOM, UTF16_BE_BOM, << 239, 187 >>}

\* What follows: up to MaxCharsetLen bytes of a letter, a byte of a single-byte
\* encoding and the two bytes of a character in UTF-8, or more than
\* CSVA_GUESS_SIZE bytes, 7-bit or not.
CharsetBodies ==
  {<< >>} \cup SeqsUpTo({97, 233, 195, 169}, MaxCharsetLen)
    \cup {Rep(97, CSVA_GUESS_SIZE + 1), Rep(97, CSVA_GUESS_SIZE) \o << 233 >>}

CharsetFiles == {s \o b \o << 10 >> : s \in CharsetStarts, b \in CharsetBodies}

InitCharset == InitOn(CharsetFiles)

NextCharset == ReadSample \/ BinaryGuard \/ DetectCharset

SpecCharset == InitCharset /\ [][NextCharset]_vars

\* The bytes start with the bytes of mark.
StartsWith(bytes, mark) ==
  Len(bytes) >= Len(mark) /\ \A i \in 1..Len(mark) : bytes[i] = mark[i]

\* C23: a sample that starts with the byte order mark of UTF-8 (EF BB BF), of
\* UTF-16LE (FF FE) or of UTF-16BE (FE FF) is labelled UTF-8BOM, UTF-16LE or
\* UTF-16BE, whatever follows and whatever its size; a sample without a byte
\* order mark and with 7-bit bytes only is labelled ansi.
C23_BomDecidesCharset ==
  Ran("DetectCharset") =>
    /\ StartsWith(sample, << 239, 187, 191 >>) => self.charset = "UTF-8BOM"
    /\ StartsWith(sample, << 255, 254 >>) => self.charset = "UTF-16LE"
    /\ StartsWith(sample, << 254, 255 >>) => self.charset = "UTF-16BE"
    /\ (\A i \in 1..Len(sample) : sample[i] < 128) => self.charset = "ansi"

\* C23 witness: a small sample with the byte order mark of UTF-8 followed by
\* bytes that are not UTF-8.
C23_BomBeforeOtherBytes ==
  /\ Ran("DetectCharset")
  /\ StartsWith(sample, << 239, 187, 191 >>)
  /\ Len(sample) = 6
  /\ sample[4] = 233
  /\ sample[5] = 233
  /\ self.charset = "UTF-8BOM"

\* The date candidates and the time candidates in the order of their insertion.
DateOrder ==
  << "rfc3339", "yyyy-mm-dd", "dd-mm-yyyy", "dd/mm/yyyy", "dd.mm.yyyy", "yyyy.dd.mm",
     "yyyy.mm.dd", "yyyy/mm/dd", "mm/dd/yyyy", "mm.dd.yyyy", "mm-dd-yyyy" >>
TimeOrder == << "hh:nn:ss am/pm", "hh:nn:ss", "hh:nn am/pm", "hh:nn" >>

\* The candidate of the list left that comes first in order.
FirstOf(left, order) ==
  order[Min({k \in 1..Len(order) : \E i \in 1..Len(left) : left[i].pattern = order[k]})]

\* The format of the candidates left: the first date candidate, then a space and
\* the first time candidate if there is one.
FormatOf(dates, times) ==
  IF times = << >> THEN << FirstOf(dates, DateOrder) >>
  ELSE << FirstOf(dates, DateOrder), " ", FirstOf(times, TimeOrder) >>

\* The column is DateTime with date candidates left.
DateTimeColumn ==
  /\ scan_out # None
  /\ scan_format # None
  /\ scan_out[1].type = "DateTime"
  /\ scan_out[1].patterns # None
  /\ scan_out[1].patterns[1].date_patterns # << >>

\* C24: the format reported for a DateTime column is the first surviving date
\* candidate in the order of insertion, followed by a space and the first
\* surviving time candidate if one survives.
C24_FirstSurvivingCandidates ==
  DateTimeColumn =>
    scan_format[1] = Some(FormatOf(scan_out[1].patterns[1].date_patterns,
                                   scan_out[1].patterns[1].time_patterns))

\* C24 witness: a date with a time of day that fits day-month and month-day
\* reports day-month, followed by the time format.
C24_AmbiguousReportsDayFirst ==
  /\ DateTimeColumn
  /\ scan_values = << DATE_WITH_TIME >>
  /\ Len(scan_out[1].patterns[1].date_patterns) = 2
  /\ scan_format[1] = Some(<< "dd/mm/yyyy", " ", "hh:nn" >>)

\* From a running type String, a step leaves the running type String and returns,
\* if it returns, String without patterns.
StringStays ==
  scan_acc.current_type = Some("String") =>
    /\ scan_acc'.current_type = Some("String")
    /\ scan_out' # None => scan_out'[1] = [type |-> "String", patterns |-> None]

\* C25: String is absorbing: once a value has made the running type of the column
\* String, by its own type or by a downgrade, the result of detect_data_type is
\* String without a pattern set, whatever the values after it.
C25_StringIsAbsorbing == [][StringStays]_vars

\* C25 witness: a date then a text, which downgrades to String, then an integer:
\* String is returned without the patterns of the date.
C25_StringAfterDate ==
  /\ scan_values = << DATE_YMD, Str(<< "a", "b" >>), Str(<< "2" >>) >>
  /\ scan_acc.patterns # None
  /\ scan_out = Some([type |-> "String", patterns |-> None])

(***************************************************************************)
(* Properties of the cursor of a failure and of the rows of a response     *)
(***************************************************************************)

\* The headers that equal an earlier header ignoring case, and those earlier ones.
DuplicatedHeaders ==
  {j \in 1..Len(headers) :
     \E i \in 1..Len(headers) : i # j /\ to_lowercase(headers[i]) = to_lowercase(headers[j])}

\* C26: a failure with DuplicateColumnName (8) reports the 1-based index of the
\* duplicated header as its column and the name of that header as its field.
C26_DuplicateIsLocated ==
  FailedWith(8) =>
    \E j \in DuplicatedHeaders :
      outcome[1].error_column = j /\ outcome[1].error_field = headers[j]

\* Field c of line r of the file is the text, and it is longer than the limit.
OffendingAt(r, c, text) ==
  /\ r \in 1..Len(lines)
  /\ c \in 1..Len(rows[r])
  /\ rows[r][c] = text
  /\ str_len(text) > MAX_STRING_SIZE

\* C27: a failure with ValueTooLong (7) reports the 1-based number of the line of
\* the file that holds the offending value (the header line, when there is one,
\* is line 1), the 1-based index of its column and its whole text.
C27_LongValueIsLocated ==
  FailedWith(7) =>
    OffendingAt(outcome[1].error_row, outcome[1].error_column, outcome[1].error_field)

\* C27 witness: under a header, the long value is the first field of the second
\* data row, the third line of the file.
C27_ThirdLineFirstColumn ==
  /\ FailedWith(7)
  /\ self.skip_header
  /\ outcome[1].error_row = 3
  /\ outcome[1].error_column = 1
  /\ Len(outcome[1].error_field) > MAX_STRING_SIZE

\* C28: in a success result every row of the sample data has as many fields as
\* there are header names, field names and type codes.
C28_RowsAsWideAsHeader ==
  Succeeded =>
    /\ Len(outcome[1].field_names) = Len(outcome[1].header_names)
    /\ Len(outcome[1].data_types) = Len(outcome[1].header_names)
    /\ outcome[1].data # None =>
         \A r \in 1..Len(outcome[1].data[1]) :
           Len(outcome[1].data[1][r]) = Len(outcome[1].header_names)

\* C29: when a header is detected, the rows given to the email tally and to type
\* inference are the parsed rows without the first, and the sample data of a
\* success result is taken from them, also when the header line is the only line.
C29_HeaderIsNeverData ==
  /\ (Ran("DetectEmailColumn") /\ self.skip_header) => data_rows = Tail(rows)
  /\ (Succeeded /\ outcome[1].skip_header /\ outcome[1].data # None) =>
       IsPrefix(outcome[1].data[1], Tail(rows))

\* C30: every parsed line has as many fields as column-count validation counts
\* columns for it with the same delimiter and quote character: count_delimiters
\* plus one, and one when no delimiter was detected.
C30_ParsedWidthIsCountedWidth ==
  Ran("ParseRows") =>
    \A n \in 1..Len(lines) :
      Len(rows[n]) = IF self.field_delim = 0 THEN 1
                     ELSE count_delimiters(self.field_delim, lines[n], self.text_sep) + 1

\* C30 witness: a line with a delimiter inside quotes and one outside is parsed
\* into two fields.
C30_QuotedDelimiterNotCounted ==
  /\ Ran("ParseRows")
  /\ self.field_delim = 44
  /\ \E n \in 1..Len(lines) :
       /\ Occurrences(44, lines[n]) = 2
       /\ Occurrences(self.text_sep, lines[n]) = 2
       /\ Len(rows[n]) = 2

=============================================================================
